---- MODULE Spec2Model ----
(***************************************************************************)
(* State-machine model of the EnhancedPetDNAMatching contract              *)
(* (src/TESTING.md, lines 570-1250): pet registration, matching requests   *)
(* with Gateway callback, timeout refunds and the fee ledger.              *)
(*                                                                         *)
(* One transaction is one step.  A handler is an operator from the state   *)
(* before the call to a result [ok, err, s]; a revert returns the state    *)
(* the call started from.  Amounts are in gwei, time in seconds.           *)
(***************************************************************************)
EXTENDS Integers, Sequences, FiniteSets, TLC

(***************************************************************************)
(* Bounds of the model                                                     *)
(***************************************************************************)
MaxPets == 2
MaxOps == 2

(***************************************************************************)
(* Contract constants                                                      *)
(***************************************************************************)
MAX_CALLBACK_TIMEOUT == 86400
MIN_CALLBACK_TIMEOUT == 600
DEFAULT_CALLBACK_TIMEOUT == 7200
MATCHING_FEE == 1000000
MIN_COMPATIBILITY_SCORE == 70

(***************************************************************************)
(* Principals.  ZeroAddress is address(0); Deployer sends the constructor  *)
(* transaction.                                                            *)
(***************************************************************************)
ZeroAddress == "0x0"
Deployer == "deployer"
Addresses == {"deployer", "alice"}

PetIds == 1..MaxPets
RequestIds == 1..MaxOps
DecryptionIds == 0..MaxOps

(***************************************************************************)
(* euint32 / uint32 values are kept as two 16-bit limbs so that addition   *)
(* and subtraction wrap modulo 2^32 exactly as FHE.add / FHE.sub do.       *)
(***************************************************************************)
Limb == 65536

U32(n) == [hi |-> (n \div Limb) % Limb, lo |-> n % Limb]

Add32(a, b) ==
  LET lo == a.lo + b.lo
  IN  [hi |-> (a.hi + b.hi + (lo \div Limb)) % Limb, lo |-> lo % Limb]

Sub32(a, b) ==
  LET lo == a.lo - b.lo
  IN  [hi |-> (a.hi - b.hi + (lo \div Limb)) % Limb, lo |-> lo % Limb]

(* FHE.sub on euint8 wraps modulo 2^8 *)
Sub8(a, b) == (a - b) % 256

(***************************************************************************)
(* Data structures                                                         *)
(***************************************************************************)
EmptyDNA ==
  [marker1 |-> 0, marker2 |-> 0, marker3 |-> 0, marker4 |-> 0,
   healthRisk |-> 0, temperament |-> 0, isActive |-> FALSE]

EmptyPet ==
  [owner |-> ZeroAddress, name |-> 0, breed |-> 0, age |-> 0,
   isAvailableForBreeding |-> FALSE, dnaProfile |-> EmptyDNA,
   registrationTime |-> 0, exists |-> FALSE]

EmptyRequest ==
  [petId1 |-> 0, petId2 |-> 0, requester |-> ZeroAddress,
   isActive |-> FALSE, isCompleted |-> FALSE, isRefunded |-> FALSE,
   requestTime |-> 0, timeoutDeadline |-> 0, paidFee |-> 0,
   compatibilityScore |-> 0, decryptionRequestId |-> 0,
   encryptedScore |-> U32(0)]

(* an emitted event: its name followed by its arguments *)
Event(n, a) == <<n>> \o a

(* multisets, as functions from the elements to their counts *)
EmptyBag == << >>
BagAdd(b, e) ==
  IF e \in DOMAIN b THEN [b EXCEPT ![e] = @ + 1] ELSE b @@ (e :> 1)
CountOf(b, e) == IF e \in DOMAIN b THEN b[e] ELSE 0

(***************************************************************************)
(* State.  The first block is the contract's storage; balance is           *)
(* address(this).balance; events is the emitted log, kept as the multiset  *)
(* of its entries; decryptionCounter is the oracle's request counter;      *)
(* transfers (a multiset of <<to, amount, request id>>) and credited are   *)
(* history variables recording every executed value transfer and every fee *)
(* credit.                                                                 *)
(***************************************************************************)
VARIABLES owner, nextPetId, nextRequestId, platformFees, callbackTimeout,
          isPaused, pets, matchingRequests, ownerToPets,
          requestIdByDecryptionId,
          balance, events, decryptionCounter, transfers, credited,
          now, donations, adminCalls

storage == <<owner, nextPetId, nextRequestId, platformFees, callbackTimeout,
             isPaused, pets, matchingRequests, ownerToPets,
             requestIdByDecryptionId>>

chain == <<storage, balance, events, decryptionCounter, transfers, credited>>

vars == <<chain, now, donations, adminCalls>>

State ==
  [owner |-> owner, nextPetId |-> nextPetId, nextRequestId |-> nextRequestId,
   platformFees |-> platformFees, callbackTimeout |-> callbackTimeout,
   isPaused |-> isPaused, pets |-> pets, matchingRequests |-> matchingRequests,
   ownerToPets |-> ownerToPets,
   requestIdByDecryptionId |-> requestIdByDecryptionId,
   balance |-> balance, events |-> events,
   decryptionCounter |-> decryptionCounter, transfers |-> transfers,
   credited |-> credited, now |-> now]

Commit(s) ==
  /\ owner' = s.owner
  /\ nextPetId' = s.nextPetId
  /\ nextRequestId' = s.nextRequestId
  /\ platformFees' = s.platformFees
  /\ callbackTimeout' = s.callbackTimeout
  /\ isPaused' = s.isPaused
  /\ pets' = s.pets
  /\ matchingRequests' = s.matchingRequests
  /\ ownerToPets' = s.ownerToPets
  /\ requestIdByDecryptionId' = s.requestIdByDecryptionId
  /\ balance' = s.balance
  /\ events' = s.events
  /\ decryptionCounter' = s.decryptionCounter
  /\ transfers' = s.transfers
  /\ credited' = s.credited

Revert(s, msg) == [ok |-> FALSE, err |-> msg, s |-> s]
Success(s) == [ok |-> TRUE, err |-> "", s |-> s]

Emit(s, n, a) == [s EXCEPT !.events = BagAdd(@, Event(n, a))]

(* mapping reads: an unset key reads as the zero value *)
PetAt(s, id) == IF id \in DOMAIN s.pets THEN s.pets[id] ELSE EmptyPet
RequestAt(s, id) ==
  IF id \in DOMAIN s.matchingRequests THEN s.matchingRequests[id]
  ELSE EmptyRequest
RequestIdOf(s, d) ==
  IF d \in DOMAIN s.requestIdByDecryptionId THEN s.requestIdByDecryptionId[d]
  ELSE 0

(***************************************************************************)
(* Private compatibility calculation                                       *)
(***************************************************************************)
(* _absDiff that returns a - b whichever operand is greater *)
_absDiff_NoSelect(a, b) ==
  LET aGreater == a >= b
      diff1 == Sub8(a, b)
      diff2 == Sub8(b, a)
  IN  diff1

(* select(a >= b, a - b, b - a) over euint8 *)
_absDiff(a, b) ==
  LET aGreater == a >= b
      diff1 == Sub8(a, b)
      diff2 == Sub8(b, a)
  IN  IF aGreater THEN diff1 ELSE diff2

_calculateCompatibility(pet1DNA, pet2DNA) ==
  LET diff1 == _absDiff(pet1DNA.marker1, pet2DNA.marker1)
      diff2 == _absDiff(pet1DNA.marker2, pet2DNA.marker2)
      diff3 == _absDiff(pet1DNA.marker3, pet2DNA.marker3)
      diff4 == _absDiff(pet1DNA.marker4, pet2DNA.marker4)
      diversity == Add32(Add32(U32(diff1), U32(diff2)),
                         Add32(U32(diff3), U32(diff4)))
      healthPenalty == Add32(U32(pet1DNA.healthRisk), U32(pet2DNA.healthRisk))
      tempDiff == _absDiff(pet1DNA.temperament, pet2DNA.temperament)
      tempScore == Sub32(U32(200), U32(tempDiff))
      rawScore == Add32(diversity, tempScore)
      finalScore == Sub32(rawScore, healthPenalty)
  IN  finalScore

(* _normalizeScore without the clamp to 100 *)
_normalizeScore_Unclamped(rawScore) ==
  rawScore.hi * 6400 + ((rawScore.lo * 100) \div 1024)

(* (rawScore * 100) / 1024 on the uint256 value hi * 2^16 + lo, clamped *)
_normalizeScore(rawScore) ==
  LET obfuscatedScore == rawScore.hi * 6400 + ((rawScore.lo * 100) \div 1024)
  IN  IF obfuscatedScore > 100 THEN 100 ELSE obfuscatedScore

(***************************************************************************)
(* Value transfers.  The recipient of a call{value: ...}("") is arbitrary  *)
(* code: it accepts, it reverts, or its receive() calls back into the      *)
(* contract (one nested call, whose revert it either propagates or         *)
(* swallows).  A behaviour is the record [kind, op, id, swallow]; the      *)
(* nested callback carries a proof that verifies, and the recipient of a   *)
(* transfer made by the nested call accepts it.                            *)
(***************************************************************************)
LeafBehaviour(k) == [kind |-> k, op |-> "", id |-> 0, swallow |-> FALSE]

LeafBehaviours == {LeafBehaviour("accept"), LeafBehaviour("reject")}

ReentrantBehaviours ==
  [kind : {"reenter"}, op : {"claimTimeoutRefund"}, id : RequestIds,
   swallow : BOOLEAN]
  \cup
  [kind : {"reenter"}, op : {"processMatchingCallback"},
   id : 0..(MaxOps - 1), swallow : BOOLEAN]

Behaviours == LeafBehaviours \cup ReentrantBehaviours

RECURSIVE NestedCall(_, _, _)

(* payable(to).call{value: amount}(""), made on behalf of request rid *)
SendValue(s, to, amount, rid, beh) ==
  IF amount > s.balance \/ beh.kind = "reject"
  THEN [sent |-> FALSE, s |-> s]
  ELSE LET paid == [s EXCEPT !.balance = @ - amount,
                             !.transfers = BagAdd(@, <<to, amount, rid>>)]
       IN  IF beh.kind = "accept"
           THEN [sent |-> TRUE, s |-> paid]
           ELSE LET r == NestedCall(paid, to, beh)
                IN  IF r.ok THEN [sent |-> TRUE, s |-> r.s]
                    ELSE IF beh.swallow THEN [sent |-> TRUE, s |-> paid]
                    ELSE [sent |-> FALSE, s |-> s]

(***************************************************************************)
(* Timeout and refund mechanism                                            *)
(***************************************************************************)
(* _processRefund that does not check whether the transfer went through *)
_processRefund_Unchecked(s, _requestId, _reason, beh) ==
  LET request == RequestAt(s, _requestId)
  IN  IF request.isRefunded THEN Revert(s, "Already refunded")
      ELSE
        LET refundAmount == request.paidFee
            refundRecipient == request.requester
            s1 == [s EXCEPT !.matchingRequests[_requestId].isRefunded = TRUE,
                            !.matchingRequests[_requestId].isActive = FALSE]
            call == SendValue(s1, refundRecipient, refundAmount, _requestId, beh)
        IN  Success(Emit(call.s, "MatchingRefunded",
                         <<_requestId, refundRecipient, refundAmount,
                           _reason>>))

(* _processRefund that makes the transfer before it sets the flags *)
_processRefund_InteractionFirst(s, _requestId, _reason, beh) ==
  LET request == RequestAt(s, _requestId)
  IN  IF request.isRefunded THEN Revert(s, "Already refunded")
      ELSE
        LET refundAmount == request.paidFee
            refundRecipient == request.requester
            call == SendValue(s, refundRecipient, refundAmount, _requestId, beh)
            s1 == [call.s EXCEPT
                    !.matchingRequests[_requestId].isRefunded = TRUE,
                    !.matchingRequests[_requestId].isActive = FALSE]
        IN  IF ~call.sent THEN Revert(s, "Refund transfer failed")
            ELSE Success(Emit(s1, "MatchingRefunded",
                              <<_requestId, refundRecipient, refundAmount,
                                _reason>>))

(* _processRefund that forgets to set the flags before the transfer *)
_processRefund_NoEffects(s, _requestId, _reason, beh) ==
  LET request == RequestAt(s, _requestId)
  IN  IF request.isRefunded THEN Revert(s, "Already refunded")
      ELSE
        LET refundAmount == request.paidFee
            refundRecipient == request.requester
            call == SendValue(s, refundRecipient, refundAmount, _requestId, beh)
        IN  IF ~call.sent THEN Revert(s, "Refund transfer failed")
            ELSE Success(Emit(call.s, "MatchingRefunded",
                              <<_requestId, refundRecipient, refundAmount,
                                _reason>>))

_processRefund(s, _requestId, _reason, beh) ==
  LET request == RequestAt(s, _requestId)
  IN  IF request.isRefunded THEN Revert(s, "Already refunded")
      ELSE
        LET refundAmount == request.paidFee
            refundRecipient == request.requester
            s1 == [s EXCEPT !.matchingRequests[_requestId].isRefunded = TRUE,
                            !.matchingRequests[_requestId].isActive = FALSE]
            call == SendValue(s1, refundRecipient, refundAmount, _requestId, beh)
        IN  IF ~call.sent THEN Revert(s, "Refund transfer failed")
            ELSE Success(Emit(call.s, "MatchingRefunded",
                              <<_requestId, refundRecipient, refundAmount,
                                _reason>>))

(* claimTimeoutRefund that logs the refund a second time itself *)
claimTimeoutRefund_LogsRefundTwice(s, sender, _requestId, beh) ==
  IF ~(_requestId > 0 /\ _requestId < s.nextRequestId)
  THEN Revert(s, "Invalid request ID")
  ELSE IF ~RequestAt(s, _requestId).isActive
  THEN Revert(s, "Request is not active")
  ELSE
    LET request == RequestAt(s, _requestId)
    IN  IF request.isCompleted THEN Revert(s, "Request already completed")
        ELSE IF request.isRefunded THEN Revert(s, "Already refunded")
        ELSE IF ~(s.now > request.timeoutDeadline)
        THEN Revert(s, "Timeout not reached yet")
        ELSE
          LET r == _processRefund(s, _requestId, "Gateway callback timeout", beh)
          IN  IF ~r.ok THEN Revert(s, r.err)
              ELSE Success(Emit(Emit(r.s, "MatchingRefunded",
                                     <<_requestId, request.requester,
                                       request.paidFee,
                                       "Gateway callback timeout">>),
                                "TimeoutTriggered",
                                <<_requestId,
                                  RequestAt(r.s, _requestId).paidFee>>))

(* claimTimeoutRefund that already accepts a claim at the deadline itself *)
claimTimeoutRefund_AtDeadline(s, sender, _requestId, beh) ==
  IF ~(_requestId > 0 /\ _requestId < s.nextRequestId)
  THEN Revert(s, "Invalid request ID")
  ELSE IF ~RequestAt(s, _requestId).isActive
  THEN Revert(s, "Request is not active")
  ELSE
    LET request == RequestAt(s, _requestId)
    IN  IF request.isCompleted THEN Revert(s, "Request already completed")
        ELSE IF request.isRefunded THEN Revert(s, "Already refunded")
        ELSE IF ~(s.now >= request.timeoutDeadline)
        THEN Revert(s, "Timeout not reached yet")
        ELSE
          LET r == _processRefund(s, _requestId, "Gateway callback timeout", beh)
          IN  IF ~r.ok THEN Revert(s, r.err)
              ELSE Success(Emit(r.s, "TimeoutTriggered",
                                <<_requestId,
                                  RequestAt(r.s, _requestId).paidFee>>))

(* claimTimeoutRefund without the validRequestId modifier and the          *)
(* isCompleted check                                                       *)
claimTimeoutRefund_Unguarded(s, sender, _requestId, beh) ==
  LET request == RequestAt(s, _requestId)
  IN  IF ~(_requestId > 0 /\ _requestId < s.nextRequestId)
      THEN Revert(s, "Invalid request ID")
      ELSE IF request.isRefunded THEN Revert(s, "Already refunded")
      ELSE IF ~(s.now > request.timeoutDeadline)
      THEN Revert(s, "Timeout not reached yet")
      ELSE
        LET r == _processRefund(s, _requestId, "Gateway callback timeout", beh)
        IN  IF ~r.ok THEN Revert(s, r.err)
            ELSE Success(Emit(r.s, "TimeoutTriggered",
                              <<_requestId,
                                RequestAt(r.s, _requestId).paidFee>>))

(* claimTimeoutRefund behind the whenNotPaused modifier *)
claimTimeoutRefund_WhenNotPaused(s, sender, _requestId, beh) ==
  IF s.isPaused THEN Revert(s, "Contract is paused")
  ELSE IF ~(_requestId > 0 /\ _requestId < s.nextRequestId)
  THEN Revert(s, "Invalid request ID")
  ELSE IF ~RequestAt(s, _requestId).isActive
  THEN Revert(s, "Request is not active")
  ELSE
    LET request == RequestAt(s, _requestId)
    IN  IF request.isCompleted THEN Revert(s, "Request already completed")
        ELSE IF request.isRefunded THEN Revert(s, "Already refunded")
        ELSE IF ~(s.now > request.timeoutDeadline)
        THEN Revert(s, "Timeout not reached yet")
        ELSE
          LET r == _processRefund(s, _requestId, "Gateway callback timeout", beh)
          IN  IF ~r.ok THEN Revert(s, r.err)
              ELSE Success(Emit(r.s, "TimeoutTriggered",
                                <<_requestId,
                                  RequestAt(r.s, _requestId).paidFee>>))

claimTimeoutRefund(s, sender, _requestId, beh) ==
  IF ~(_requestId > 0 /\ _requestId < s.nextRequestId)
  THEN Revert(s, "Invalid request ID")
  ELSE IF ~RequestAt(s, _requestId).isActive
  THEN Revert(s, "Request is not active")
  ELSE
    LET request == RequestAt(s, _requestId)
    IN  IF request.isCompleted THEN Revert(s, "Request already completed")
        ELSE IF request.isRefunded THEN Revert(s, "Already refunded")
        ELSE IF ~(s.now > request.timeoutDeadline)
        THEN Revert(s, "Timeout not reached yet")
        ELSE
          LET r == _processRefund(s, _requestId, "Gateway callback timeout", beh)
          IN  IF ~r.ok THEN Revert(s, r.err)
              ELSE Success(Emit(r.s, "TimeoutTriggered",
                                <<_requestId,
                                  RequestAt(r.s, _requestId).paidFee>>))

(***************************************************************************)
(* Gateway callback.  A proof that verifies signs the decryption of the    *)
(* handle that was dispatched under decryptionRequestId, so the cleartext  *)
(* of an accepted callback is the request's encrypted score.               *)
(***************************************************************************)
(* the threshold taken as exclusive *)
isSuccessfulMatch_Exclusive(normalizedScore) ==
  normalizedScore > MIN_COMPATIBILITY_SCORE

isSuccessfulMatch(normalizedScore) ==
  normalizedScore >= MIN_COMPATIBILITY_SCORE

(* processMatchingCallback that reports a failed refund without undoing *)
(* what it had already written                                          *)
processMatchingCallback_NoRollback(s, sender, decryptionRequestId, proofValid, beh) ==
  IF ~proofValid THEN Revert(s, "Invalid signatures")
  ELSE
    LET requestId == RequestIdOf(s, decryptionRequestId)
    IN  IF ~(requestId > 0) THEN Revert(s, "Invalid decryption request")
        ELSE
          LET request == RequestAt(s, requestId)
          IN  IF ~request.isActive THEN Revert(s, "Request is not active")
              ELSE IF request.isCompleted
              THEN Revert(s, "Request already completed")
              ELSE IF ~(s.now <= request.timeoutDeadline)
              THEN Revert(s, "Request has timed out")
              ELSE
                LET score == request.encryptedScore
                    normalizedScore == _normalizeScore(score)
                    s1 == [s EXCEPT
                            !.matchingRequests[requestId].compatibilityScore =
                                normalizedScore,
                            !.matchingRequests[requestId].isCompleted = TRUE,
                            !.matchingRequests[requestId].isActive = FALSE]
                    done == <<requestId, normalizedScore,
                              isSuccessfulMatch(normalizedScore)>>
                IN  IF isSuccessfulMatch(normalizedScore)
                    THEN Success(Emit(
                           [s1 EXCEPT !.platformFees = @ + request.paidFee,
                                      !.credited[requestId] =
                                          @ + request.paidFee],
                           "MatchingCompleted", done))
                    ELSE
                      LET r == _processRefund(s1, requestId,
                                 "Compatibility score below threshold", beh)
                      IN  IF ~r.ok THEN Revert(s1, r.err)
                          ELSE Success(Emit(r.s, "MatchingCompleted", done))

(* processMatchingCallback that never checks the decryption proof *)
processMatchingCallback_Unverified(s, sender, decryptionRequestId, proofValid, beh) ==
  IF FALSE THEN Revert(s, "Invalid signatures")
  ELSE
    LET requestId == RequestIdOf(s, decryptionRequestId)
    IN  IF ~(requestId > 0) THEN Revert(s, "Invalid decryption request")
        ELSE
          LET request == RequestAt(s, requestId)
          IN  IF ~request.isActive THEN Revert(s, "Request is not active")
              ELSE IF request.isCompleted
              THEN Revert(s, "Request already completed")
              ELSE IF ~(s.now <= request.timeoutDeadline)
              THEN Revert(s, "Request has timed out")
              ELSE
                LET score == request.encryptedScore
                    normalizedScore == _normalizeScore(score)
                    s1 == [s EXCEPT
                            !.matchingRequests[requestId].compatibilityScore =
                                normalizedScore,
                            !.matchingRequests[requestId].isCompleted = TRUE,
                            !.matchingRequests[requestId].isActive = FALSE]
                    done == <<requestId, normalizedScore,
                              isSuccessfulMatch(normalizedScore)>>
                IN  IF isSuccessfulMatch(normalizedScore)
                    THEN Success(Emit(
                           [s1 EXCEPT !.platformFees = @ + request.paidFee,
                                      !.credited[requestId] =
                                          @ + request.paidFee],
                           "MatchingCompleted", done))
                    ELSE
                      LET r == _processRefund(s1, requestId,
                                 "Compatibility score below threshold", beh)
                      IN  IF ~r.ok THEN Revert(s, r.err)
                          ELSE Success(Emit(r.s, "MatchingCompleted", done))

(* processMatchingCallback without the deadline check *)
processMatchingCallback_Late(s, sender, decryptionRequestId, proofValid, beh) ==
  IF ~proofValid THEN Revert(s, "Invalid signatures")
  ELSE
    LET requestId == RequestIdOf(s, decryptionRequestId)
    IN  IF ~(requestId > 0) THEN Revert(s, "Invalid decryption request")
        ELSE
          LET request == RequestAt(s, requestId)
          IN  IF ~request.isActive THEN Revert(s, "Request is not active")
              ELSE IF request.isCompleted
              THEN Revert(s, "Request already completed")
              ELSE
                LET score == request.encryptedScore
                    normalizedScore == _normalizeScore(score)
                    s1 == [s EXCEPT
                            !.matchingRequests[requestId].compatibilityScore =
                                normalizedScore,
                            !.matchingRequests[requestId].isCompleted = TRUE,
                            !.matchingRequests[requestId].isActive = FALSE]
                    done == <<requestId, normalizedScore,
                              isSuccessfulMatch(normalizedScore)>>
                IN  IF isSuccessfulMatch(normalizedScore)
                    THEN Success(Emit(
                           [s1 EXCEPT !.platformFees = @ + request.paidFee,
                                      !.credited[requestId] =
                                          @ + request.paidFee],
                           "MatchingCompleted", done))
                    ELSE
                      LET r == _processRefund(s1, requestId,
                                 "Compatibility score below threshold", beh)
                      IN  IF ~r.ok THEN Revert(s, r.err)
                          ELSE Success(Emit(r.s, "MatchingCompleted", done))

(* processMatchingCallback that leaves the request marked active *)
processMatchingCallback_StaysActive(s, sender, decryptionRequestId, proofValid, beh) ==
  IF ~proofValid THEN Revert(s, "Invalid signatures")
  ELSE
    LET requestId == RequestIdOf(s, decryptionRequestId)
    IN  IF ~(requestId > 0) THEN Revert(s, "Invalid decryption request")
        ELSE
          LET request == RequestAt(s, requestId)
          IN  IF ~request.isActive THEN Revert(s, "Request is not active")
              ELSE IF request.isCompleted
              THEN Revert(s, "Request already completed")
              ELSE IF ~(s.now <= request.timeoutDeadline)
              THEN Revert(s, "Request has timed out")
              ELSE
                LET score == request.encryptedScore
                    normalizedScore == _normalizeScore(score)
                    s1 == [s EXCEPT
                            !.matchingRequests[requestId].compatibilityScore =
                                normalizedScore,
                            !.matchingRequests[requestId].isCompleted = TRUE]
                    done == <<requestId, normalizedScore,
                              isSuccessfulMatch(normalizedScore)>>
                IN  IF isSuccessfulMatch(normalizedScore)
                    THEN Success(Emit(
                           [s1 EXCEPT !.platformFees = @ + request.paidFee,
                                      !.credited[requestId] =
                                          @ + request.paidFee],
                           "MatchingCompleted", done))
                    ELSE
                      LET r == _processRefund(s1, requestId,
                                 "Compatibility score below threshold", beh)
                      IN  IF ~r.ok THEN Revert(s, r.err)
                          ELSE Success(Emit(r.s, "MatchingCompleted", done))

(* processMatchingCallback that credits the fee it has just refunded *)
processMatchingCallback_CreditsRefund(s, sender, decryptionRequestId, proofValid, beh) ==
  IF ~proofValid THEN Revert(s, "Invalid signatures")
  ELSE
    LET requestId == RequestIdOf(s, decryptionRequestId)
    IN  IF ~(requestId > 0) THEN Revert(s, "Invalid decryption request")
        ELSE
          LET request == RequestAt(s, requestId)
          IN  IF ~request.isActive THEN Revert(s, "Request is not active")
              ELSE IF request.isCompleted
              THEN Revert(s, "Request already completed")
              ELSE IF ~(s.now <= request.timeoutDeadline)
              THEN Revert(s, "Request has timed out")
              ELSE
                LET score == request.encryptedScore
                    normalizedScore == _normalizeScore(score)
                    s1 == [s EXCEPT
                            !.matchingRequests[requestId].compatibilityScore =
                                normalizedScore,
                            !.matchingRequests[requestId].isCompleted = TRUE,
                            !.matchingRequests[requestId].isActive = FALSE]
                    done == <<requestId, normalizedScore,
                              isSuccessfulMatch(normalizedScore)>>
                IN  IF isSuccessfulMatch(normalizedScore)
                    THEN Success(Emit(
                           [s1 EXCEPT !.platformFees = @ + request.paidFee,
                                      !.credited[requestId] =
                                          @ + request.paidFee],
                           "MatchingCompleted", done))
                    ELSE
                      LET r == _processRefund(s1, requestId,
                                 "Compatibility score below threshold", beh)
                      IN  IF ~r.ok THEN Revert(s, r.err)
                          ELSE Success(Emit([r.s EXCEPT !.platformFees =
                                                  @ + request.paidFee],
                                            "MatchingCompleted", done))

processMatchingCallback(s, sender, decryptionRequestId, proofValid, beh) ==
  IF ~proofValid THEN Revert(s, "Invalid signatures")
  ELSE
    LET requestId == RequestIdOf(s, decryptionRequestId)
    IN  IF ~(requestId > 0) THEN Revert(s, "Invalid decryption request")
        ELSE
          LET request == RequestAt(s, requestId)
          IN  IF ~request.isActive THEN Revert(s, "Request is not active")
              ELSE IF request.isCompleted
              THEN Revert(s, "Request already completed")
              ELSE IF ~(s.now <= request.timeoutDeadline)
              THEN Revert(s, "Request has timed out")
              ELSE
                LET score == request.encryptedScore
                    normalizedScore == _normalizeScore(score)
                    s1 == [s EXCEPT
                            !.matchingRequests[requestId].compatibilityScore =
                                normalizedScore,
                            !.matchingRequests[requestId].isCompleted = TRUE,
                            !.matchingRequests[requestId].isActive = FALSE]
                    done == <<requestId, normalizedScore,
                              isSuccessfulMatch(normalizedScore)>>
                IN  IF isSuccessfulMatch(normalizedScore)
                    THEN Success(Emit(
                           [s1 EXCEPT !.platformFees = @ + request.paidFee,
                                      !.credited[requestId] =
                                          @ + request.paidFee],
                           "MatchingCompleted", done))
                    ELSE
                      LET r == _processRefund(s1, requestId,
                                 "Compatibility score below threshold", beh)
                      IN  IF ~r.ok THEN Revert(s, r.err)
                          ELSE Success(Emit(r.s, "MatchingCompleted", done))

(* the call a recipient makes from its receive() hook *)
NestedCall(s, sender, beh) ==
  IF beh.op = "claimTimeoutRefund"
  THEN claimTimeoutRefund(s, sender, beh.id, LeafBehaviour("accept"))
  ELSE processMatchingCallback(s, sender, beh.id, TRUE,
                               LeafBehaviour("accept"))

(***************************************************************************)
(* Pet registration                                                        *)
(***************************************************************************)
(* registerPet without the whenNotPaused modifier *)
registerPet_IgnoresPause(s, sender, _name, _breed, _age, dna, inputProofValid) ==
  IF FALSE THEN Revert(s, "Contract is paused")
  ELSE IF ~(_name > 0 /\ _name <= 50) THEN Revert(s, "Invalid name length")
  ELSE IF ~(_breed > 0 /\ _breed <= 50) THEN Revert(s, "Invalid breed length")
  ELSE IF ~(_age > 0 /\ _age <= 30)
  THEN Revert(s, "Invalid age: Must be 1-30 years")
  ELSE IF ~inputProofValid THEN Revert(s, "Invalid input proof")
  ELSE
    LET petId == s.nextPetId
        dnaProfile == [dna EXCEPT !.isActive = TRUE]
        pet == [owner |-> sender, name |-> _name, breed |-> _breed,
                age |-> _age, isAvailableForBreeding |-> TRUE,
                dnaProfile |-> dnaProfile, registrationTime |-> s.now,
                exists |-> TRUE]
        s1 == [s EXCEPT !.nextPetId = @ + 1,
                        !.pets[petId] = pet,
                        !.ownerToPets[sender] = Append(@, petId)]
    IN  Success(Emit(s1, "PetRegistered", <<petId, sender, _name, _breed>>))

(* registerPet that takes the upper bound of the name length as exclusive *)
registerPet_ExclusiveBound(s, sender, _name, _breed, _age, dna, inputProofValid) ==
  IF s.isPaused THEN Revert(s, "Contract is paused")
  ELSE IF ~(_name > 0 /\ _name < 50) THEN Revert(s, "Invalid name length")
  ELSE IF ~(_breed > 0 /\ _breed <= 50) THEN Revert(s, "Invalid breed length")
  ELSE IF ~(_age > 0 /\ _age <= 30)
  THEN Revert(s, "Invalid age: Must be 1-30 years")
  ELSE IF ~inputProofValid THEN Revert(s, "Invalid input proof")
  ELSE
    LET petId == s.nextPetId
        dnaProfile == [dna EXCEPT !.isActive = TRUE]
        pet == [owner |-> sender, name |-> _name, breed |-> _breed,
                age |-> _age, isAvailableForBreeding |-> TRUE,
                dnaProfile |-> dnaProfile, registrationTime |-> s.now,
                exists |-> TRUE]
        s1 == [s EXCEPT !.nextPetId = @ + 1,
                        !.pets[petId] = pet,
                        !.ownerToPets[sender] = Append(@, petId)]
    IN  Success(Emit(s1, "PetRegistered", <<petId, sender, _name, _breed>>))

(* registerPet that does not advance nextPetId *)
registerPet_ReusesId(s, sender, _name, _breed, _age, dna, inputProofValid) ==
  IF s.isPaused THEN Revert(s, "Contract is paused")
  ELSE IF ~(_name > 0 /\ _name <= 50) THEN Revert(s, "Invalid name length")
  ELSE IF ~(_breed > 0 /\ _breed <= 50) THEN Revert(s, "Invalid breed length")
  ELSE IF ~(_age > 0 /\ _age <= 30)
  THEN Revert(s, "Invalid age: Must be 1-30 years")
  ELSE IF ~inputProofValid THEN Revert(s, "Invalid input proof")
  ELSE
    LET petId == s.nextPetId
        dnaProfile == [dna EXCEPT !.isActive = TRUE]
        pet == [owner |-> sender, name |-> _name, breed |-> _breed,
                age |-> _age, isAvailableForBreeding |-> TRUE,
                dnaProfile |-> dnaProfile, registrationTime |-> s.now,
                exists |-> TRUE]
        s1 == [s EXCEPT !.pets[petId] = pet,
                        !.ownerToPets[sender] = Append(@, petId)]
    IN  Success(Emit(s1, "PetRegistered", <<petId, sender, _name, _breed>>))

registerPet(s, sender, _name, _breed, _age, dna, inputProofValid) ==
  IF s.isPaused THEN Revert(s, "Contract is paused")
  ELSE IF ~(_name > 0 /\ _name <= 50) THEN Revert(s, "Invalid name length")
  ELSE IF ~(_breed > 0 /\ _breed <= 50) THEN Revert(s, "Invalid breed length")
  ELSE IF ~(_age > 0 /\ _age <= 30)
  THEN Revert(s, "Invalid age: Must be 1-30 years")
  ELSE IF ~inputProofValid THEN Revert(s, "Invalid input proof")
  ELSE
    LET petId == s.nextPetId
        dnaProfile == [dna EXCEPT !.isActive = TRUE]
        pet == [owner |-> sender, name |-> _name, breed |-> _breed,
                age |-> _age, isAvailableForBreeding |-> TRUE,
                dnaProfile |-> dnaProfile, registrationTime |-> s.now,
                exists |-> TRUE]
        s1 == [s EXCEPT !.nextPetId = @ + 1,
                        !.pets[petId] = pet,
                        !.ownerToPets[sender] = Append(@, petId)]
    IN  Success(Emit(s1, "PetRegistered", <<petId, sender, _name, _breed>>))

(***************************************************************************)
(* Matching with Gateway callback                                          *)
(***************************************************************************)
validPetId(s, _petId) ==
  IF ~(_petId > 0 /\ _petId < s.nextPetId) THEN "Invalid pet ID"
  ELSE IF ~PetAt(s, _petId).exists THEN "Pet does not exist"
  ELSE ""

(* requestMatching that accepts any payment of at least the fee *)
requestMatching_AtLeastFee(s0, sender, value, _petId1, _petId2) ==
  LET s == [s0 EXCEPT !.balance = @ + value]
  IN  IF s.isPaused THEN Revert(s0, "Contract is paused")
      ELSE IF validPetId(s, _petId1) # "" THEN Revert(s0, validPetId(s, _petId1))
      ELSE IF validPetId(s, _petId2) # "" THEN Revert(s0, validPetId(s, _petId2))
      ELSE IF ~(value >= MATCHING_FEE) THEN Revert(s0, "Incorrect matching fee")
      ELSE IF ~(_petId1 # _petId2)
      THEN Revert(s0, "Cannot match pet with itself")
      ELSE IF ~PetAt(s, _petId1).isAvailableForBreeding
      THEN Revert(s0, "Pet 1 not available for breeding")
      ELSE IF ~PetAt(s, _petId2).isAvailableForBreeding
      THEN Revert(s0, "Pet 2 not available for breeding")
      ELSE IF ~(sender = PetAt(s, _petId1).owner
                \/ sender = PetAt(s, _petId2).owner)
      THEN Revert(s0, "Must own at least one pet")
      ELSE
        LET requestId == s.nextRequestId
            deadline == s.now + s.callbackTimeout
            encryptedScore ==
              _calculateCompatibility(PetAt(s, _petId1).dnaProfile,
                                      PetAt(s, _petId2).dnaProfile)
            decryptionRequestId == s.decryptionCounter
            request ==
              [petId1 |-> _petId1, petId2 |-> _petId2, requester |-> sender,
               isActive |-> TRUE, isCompleted |-> FALSE, isRefunded |-> FALSE,
               requestTime |-> s.now, timeoutDeadline |-> deadline,
               paidFee |-> value, compatibilityScore |-> 0,
               decryptionRequestId |-> decryptionRequestId,
               encryptedScore |-> encryptedScore]
            s1 == [s EXCEPT
                    !.nextRequestId = @ + 1,
                    !.matchingRequests[requestId] = request,
                    !.decryptionCounter = @ + 1,
                    !.requestIdByDecryptionId[decryptionRequestId] = requestId]
        IN  Success(Emit(Emit(s1, "MatchingRequested",
                              <<requestId, _petId1, _petId2, sender, deadline>>),
                         "DecryptionRequested",
                         <<requestId, decryptionRequestId>>))

(* requestMatching that does not compare the two pet ids *)
requestMatching_SelfMatch(s0, sender, value, _petId1, _petId2) ==
  LET s == [s0 EXCEPT !.balance = @ + value]
  IN  IF s.isPaused THEN Revert(s0, "Contract is paused")
      ELSE IF validPetId(s, _petId1) # "" THEN Revert(s0, validPetId(s, _petId1))
      ELSE IF validPetId(s, _petId2) # "" THEN Revert(s0, validPetId(s, _petId2))
      ELSE IF ~(value = MATCHING_FEE) THEN Revert(s0, "Incorrect matching fee")
      ELSE IF FALSE
      THEN Revert(s0, "Cannot match pet with itself")
      ELSE IF ~PetAt(s, _petId1).isAvailableForBreeding
      THEN Revert(s0, "Pet 1 not available for breeding")
      ELSE IF ~PetAt(s, _petId2).isAvailableForBreeding
      THEN Revert(s0, "Pet 2 not available for breeding")
      ELSE IF ~(sender = PetAt(s, _petId1).owner
                \/ sender = PetAt(s, _petId2).owner)
      THEN Revert(s0, "Must own at least one pet")
      ELSE
        LET requestId == s.nextRequestId
            deadline == s.now + s.callbackTimeout
            encryptedScore ==
              _calculateCompatibility(PetAt(s, _petId1).dnaProfile,
                                      PetAt(s, _petId2).dnaProfile)
            decryptionRequestId == s.decryptionCounter
            request ==
              [petId1 |-> _petId1, petId2 |-> _petId2, requester |-> sender,
               isActive |-> TRUE, isCompleted |-> FALSE, isRefunded |-> FALSE,
               requestTime |-> s.now, timeoutDeadline |-> deadline,
               paidFee |-> value, compatibilityScore |-> 0,
               decryptionRequestId |-> decryptionRequestId,
               encryptedScore |-> encryptedScore]
            s1 == [s EXCEPT
                    !.nextRequestId = @ + 1,
                    !.matchingRequests[requestId] = request,
                    !.decryptionCounter = @ + 1,
                    !.requestIdByDecryptionId[decryptionRequestId] = requestId]
        IN  Success(Emit(Emit(s1, "MatchingRequested",
                              <<requestId, _petId1, _petId2, sender, deadline>>),
                         "DecryptionRequested",
                         <<requestId, decryptionRequestId>>))

(* requestMatching that checks the availability of the first pet only *)
requestMatching_Pet2Unchecked(s0, sender, value, _petId1, _petId2) ==
  LET s == [s0 EXCEPT !.balance = @ + value]
  IN  IF s.isPaused THEN Revert(s0, "Contract is paused")
      ELSE IF validPetId(s, _petId1) # "" THEN Revert(s0, validPetId(s, _petId1))
      ELSE IF validPetId(s, _petId2) # "" THEN Revert(s0, validPetId(s, _petId2))
      ELSE IF ~(value = MATCHING_FEE) THEN Revert(s0, "Incorrect matching fee")
      ELSE IF ~(_petId1 # _petId2)
      THEN Revert(s0, "Cannot match pet with itself")
      ELSE IF ~PetAt(s, _petId1).isAvailableForBreeding
      THEN Revert(s0, "Pet 1 not available for breeding")
      ELSE IF FALSE
      THEN Revert(s0, "Pet 2 not available for breeding")
      ELSE IF ~(sender = PetAt(s, _petId1).owner
                \/ sender = PetAt(s, _petId2).owner)
      THEN Revert(s0, "Must own at least one pet")
      ELSE
        LET requestId == s.nextRequestId
            deadline == s.now + s.callbackTimeout
            encryptedScore ==
              _calculateCompatibility(PetAt(s, _petId1).dnaProfile,
                                      PetAt(s, _petId2).dnaProfile)
            decryptionRequestId == s.decryptionCounter
            request ==
              [petId1 |-> _petId1, petId2 |-> _petId2, requester |-> sender,
               isActive |-> TRUE, isCompleted |-> FALSE, isRefunded |-> FALSE,
               requestTime |-> s.now, timeoutDeadline |-> deadline,
               paidFee |-> value, compatibilityScore |-> 0,
               decryptionRequestId |-> decryptionRequestId,
               encryptedScore |-> encryptedScore]
            s1 == [s EXCEPT
                    !.nextRequestId = @ + 1,
                    !.matchingRequests[requestId] = request,
                    !.decryptionCounter = @ + 1,
                    !.requestIdByDecryptionId[decryptionRequestId] = requestId]
        IN  Success(Emit(Emit(s1, "MatchingRequested",
                              <<requestId, _petId1, _petId2, sender, deadline>>),
                         "DecryptionRequested",
                         <<requestId, decryptionRequestId>>))

(* requestMatching that does not check who owns the pets *)
requestMatching_AnyCaller(s0, sender, value, _petId1, _petId2) ==
  LET s == [s0 EXCEPT !.balance = @ + value]
  IN  IF s.isPaused THEN Revert(s0, "Contract is paused")
      ELSE IF validPetId(s, _petId1) # "" THEN Revert(s0, validPetId(s, _petId1))
      ELSE IF validPetId(s, _petId2) # "" THEN Revert(s0, validPetId(s, _petId2))
      ELSE IF ~(value = MATCHING_FEE) THEN Revert(s0, "Incorrect matching fee")
      ELSE IF ~(_petId1 # _petId2)
      THEN Revert(s0, "Cannot match pet with itself")
      ELSE IF ~PetAt(s, _petId1).isAvailableForBreeding
      THEN Revert(s0, "Pet 1 not available for breeding")
      ELSE IF ~PetAt(s, _petId2).isAvailableForBreeding
      THEN Revert(s0, "Pet 2 not available for breeding")
      ELSE IF FALSE
      THEN Revert(s0, "Must own at least one pet")
      ELSE
        LET requestId == s.nextRequestId
            deadline == s.now + s.callbackTimeout
            encryptedScore ==
              _calculateCompatibility(PetAt(s, _petId1).dnaProfile,
                                      PetAt(s, _petId2).dnaProfile)
            decryptionRequestId == s.decryptionCounter
            request ==
              [petId1 |-> _petId1, petId2 |-> _petId2, requester |-> sender,
               isActive |-> TRUE, isCompleted |-> FALSE, isRefunded |-> FALSE,
               requestTime |-> s.now, timeoutDeadline |-> deadline,
               paidFee |-> value, compatibilityScore |-> 0,
               decryptionRequestId |-> decryptionRequestId,
               encryptedScore |-> encryptedScore]
            s1 == [s EXCEPT
                    !.nextRequestId = @ + 1,
                    !.matchingRequests[requestId] = request,
                    !.decryptionCounter = @ + 1,
                    !.requestIdByDecryptionId[decryptionRequestId] = requestId]
        IN  Success(Emit(Emit(s1, "MatchingRequested",
                              <<requestId, _petId1, _petId2, sender, deadline>>),
                         "DecryptionRequested",
                         <<requestId, decryptionRequestId>>))

(* requestMatching that compares the pet ids before it checks the payment *)
requestMatching_DistinctBeforeFee(s0, sender, value, _petId1, _petId2) ==
  LET s == [s0 EXCEPT !.balance = @ + value]
  IN  IF s.isPaused THEN Revert(s0, "Contract is paused")
      ELSE IF validPetId(s, _petId1) # "" THEN Revert(s0, validPetId(s, _petId1))
      ELSE IF validPetId(s, _petId2) # "" THEN Revert(s0, validPetId(s, _petId2))
      ELSE IF ~(_petId1 # _petId2)
      THEN Revert(s0, "Cannot match pet with itself")
      ELSE IF ~(value = MATCHING_FEE) THEN Revert(s0, "Incorrect matching fee")
      ELSE IF ~PetAt(s, _petId1).isAvailableForBreeding
      THEN Revert(s0, "Pet 1 not available for breeding")
      ELSE IF ~PetAt(s, _petId2).isAvailableForBreeding
      THEN Revert(s0, "Pet 2 not available for breeding")
      ELSE IF ~(sender = PetAt(s, _petId1).owner
                \/ sender = PetAt(s, _petId2).owner)
      THEN Revert(s0, "Must own at least one pet")
      ELSE
        LET requestId == s.nextRequestId
            deadline == s.now + s.callbackTimeout
            encryptedScore ==
              _calculateCompatibility(PetAt(s, _petId1).dnaProfile,
                                      PetAt(s, _petId2).dnaProfile)
            decryptionRequestId == s.decryptionCounter
            request ==
              [petId1 |-> _petId1, petId2 |-> _petId2, requester |-> sender,
               isActive |-> TRUE, isCompleted |-> FALSE, isRefunded |-> FALSE,
               requestTime |-> s.now, timeoutDeadline |-> deadline,
               paidFee |-> value, compatibilityScore |-> 0,
               decryptionRequestId |-> decryptionRequestId,
               encryptedScore |-> encryptedScore]
            s1 == [s EXCEPT
                    !.nextRequestId = @ + 1,
                    !.matchingRequests[requestId] = request,
                    !.decryptionCounter = @ + 1,
                    !.requestIdByDecryptionId[decryptionRequestId] = requestId]
        IN  Success(Emit(Emit(s1, "MatchingRequested",
                              <<requestId, _petId1, _petId2, sender, deadline>>),
                         "DecryptionRequested",
                         <<requestId, decryptionRequestId>>))

(* requestMatching that hands every request the same oracle id *)
requestMatching_SharedOracleId(s0, sender, value, _petId1, _petId2) ==
  LET s == [s0 EXCEPT !.balance = @ + value]
  IN  IF s.isPaused THEN Revert(s0, "Contract is paused")
      ELSE IF validPetId(s, _petId1) # "" THEN Revert(s0, validPetId(s, _petId1))
      ELSE IF validPetId(s, _petId2) # "" THEN Revert(s0, validPetId(s, _petId2))
      ELSE IF ~(value = MATCHING_FEE) THEN Revert(s0, "Incorrect matching fee")
      ELSE IF ~(_petId1 # _petId2)
      THEN Revert(s0, "Cannot match pet with itself")
      ELSE IF ~PetAt(s, _petId1).isAvailableForBreeding
      THEN Revert(s0, "Pet 1 not available for breeding")
      ELSE IF ~PetAt(s, _petId2).isAvailableForBreeding
      THEN Revert(s0, "Pet 2 not available for breeding")
      ELSE IF ~(sender = PetAt(s, _petId1).owner
                \/ sender = PetAt(s, _petId2).owner)
      THEN Revert(s0, "Must own at least one pet")
      ELSE
        LET requestId == s.nextRequestId
            deadline == s.now + s.callbackTimeout
            encryptedScore ==
              _calculateCompatibility(PetAt(s, _petId1).dnaProfile,
                                      PetAt(s, _petId2).dnaProfile)
            decryptionRequestId == s.decryptionCounter
            request ==
              [petId1 |-> _petId1, petId2 |-> _petId2, requester |-> sender,
               isActive |-> TRUE, isCompleted |-> FALSE, isRefunded |-> FALSE,
               requestTime |-> s.now, timeoutDeadline |-> deadline,
               paidFee |-> value, compatibilityScore |-> 0,
               decryptionRequestId |-> decryptionRequestId,
               encryptedScore |-> encryptedScore]
            s1 == [s EXCEPT
                    !.nextRequestId = @ + 1,
                    !.matchingRequests[requestId] = request,
                    !.requestIdByDecryptionId[decryptionRequestId] = requestId]
        IN  Success(Emit(Emit(s1, "MatchingRequested",
                              <<requestId, _petId1, _petId2, sender, deadline>>),
                         "DecryptionRequested",
                         <<requestId, decryptionRequestId>>))

requestMatching(s0, sender, value, _petId1, _petId2) ==
  LET s == [s0 EXCEPT !.balance = @ + value]
  IN  IF s.isPaused THEN Revert(s0, "Contract is paused")
      ELSE IF validPetId(s, _petId1) # "" THEN Revert(s0, validPetId(s, _petId1))
      ELSE IF validPetId(s, _petId2) # "" THEN Revert(s0, validPetId(s, _petId2))
      ELSE IF ~(value = MATCHING_FEE) THEN Revert(s0, "Incorrect matching fee")
      ELSE IF ~(_petId1 # _petId2)
      THEN Revert(s0, "Cannot match pet with itself")
      ELSE IF ~PetAt(s, _petId1).isAvailableForBreeding
      THEN Revert(s0, "Pet 1 not available for breeding")
      ELSE IF ~PetAt(s, _petId2).isAvailableForBreeding
      THEN Revert(s0, "Pet 2 not available for breeding")
      ELSE IF ~(sender = PetAt(s, _petId1).owner
                \/ sender = PetAt(s, _petId2).owner)
      THEN Revert(s0, "Must own at least one pet")
      ELSE
        LET requestId == s.nextRequestId
            deadline == s.now + s.callbackTimeout
            encryptedScore ==
              _calculateCompatibility(PetAt(s, _petId1).dnaProfile,
                                      PetAt(s, _petId2).dnaProfile)
            decryptionRequestId == s.decryptionCounter
            request ==
              [petId1 |-> _petId1, petId2 |-> _petId2, requester |-> sender,
               isActive |-> TRUE, isCompleted |-> FALSE, isRefunded |-> FALSE,
               requestTime |-> s.now, timeoutDeadline |-> deadline,
               paidFee |-> value, compatibilityScore |-> 0,
               decryptionRequestId |-> decryptionRequestId,
               encryptedScore |-> encryptedScore]
            s1 == [s EXCEPT
                    !.nextRequestId = @ + 1,
                    !.matchingRequests[requestId] = request,
                    !.decryptionCounter = @ + 1,
                    !.requestIdByDecryptionId[decryptionRequestId] = requestId]
        IN  Success(Emit(Emit(s1, "MatchingRequested",
                              <<requestId, _petId1, _petId2, sender, deadline>>),
                         "DecryptionRequested",
                         <<requestId, decryptionRequestId>>))

(***************************************************************************)
(* Pet management                                                          *)
(***************************************************************************)
(* toggleBreedingStatus that also deactivates the pending requests of the pet *)
toggleBreedingStatus_CancelsRequests(s, sender, _petId) ==
  IF validPetId(s, _petId) # "" THEN Revert(s, validPetId(s, _petId))
  ELSE IF ~PetAt(s, _petId).exists THEN Revert(s, "Pet does not exist")
  ELSE IF ~(PetAt(s, _petId).owner = sender)
  THEN Revert(s, "Not authorized: Pet owner only")
  ELSE
    LET cancelled == [r \in DOMAIN s.matchingRequests |->
                       IF /\ s.matchingRequests[r].isActive
                          /\ _petId \in {s.matchingRequests[r].petId1,
                                         s.matchingRequests[r].petId2}
                       THEN [s.matchingRequests[r] EXCEPT !.isActive = FALSE]
                       ELSE s.matchingRequests[r]]
        s1 == [s EXCEPT !.pets[_petId].isAvailableForBreeding = ~@,
                        !.matchingRequests = cancelled]
    IN  Success(Emit(s1, "PetBreedingStatusChanged",
                     <<_petId, PetAt(s1, _petId).isAvailableForBreeding>>))

toggleBreedingStatus(s, sender, _petId) ==
  IF validPetId(s, _petId) # "" THEN Revert(s, validPetId(s, _petId))
  ELSE IF ~PetAt(s, _petId).exists THEN Revert(s, "Pet does not exist")
  ELSE IF ~(PetAt(s, _petId).owner = sender)
  THEN Revert(s, "Not authorized: Pet owner only")
  ELSE
    LET s1 == [s EXCEPT !.pets[_petId].isAvailableForBreeding = ~@]
    IN  Success(Emit(s1, "PetBreedingStatusChanged",
                     <<_petId, PetAt(s1, _petId).isAvailableForBreeding>>))

(***************************************************************************)
(* Admin functions                                                         *)
(***************************************************************************)
(* withdrawPlatformFees that zeroes the accumulator after the transfer *)
withdrawPlatformFees_ZeroAfter(s, sender, _to, beh) ==
  IF ~(sender = s.owner) THEN Revert(s, "Not authorized: Owner only")
  ELSE IF ~(_to # ZeroAddress) THEN Revert(s, "Invalid recipient address")
  ELSE IF ~(s.platformFees > 0) THEN Revert(s, "No fees to withdraw")
  ELSE
    LET amount == s.platformFees
        call == SendValue(s, _to, amount, 0, beh)
        s1 == [call.s EXCEPT !.platformFees = 0]
    IN  IF ~call.sent THEN Revert(s, "Fee withdrawal failed")
        ELSE Success(Emit(s1, "PlatformFeesWithdrawn", <<_to, amount>>))

(* withdrawPlatformFees without the onlyOwner modifier *)
withdrawPlatformFees_Anyone(s, sender, _to, beh) ==
  IF ~(_to # ZeroAddress) THEN Revert(s, "Invalid recipient address")
  ELSE IF ~(s.platformFees > 0) THEN Revert(s, "No fees to withdraw")
  ELSE
    LET amount == s.platformFees
        s1 == [s EXCEPT !.platformFees = 0]
        call == SendValue(s1, _to, amount, 0, beh)
    IN  IF ~call.sent THEN Revert(s, "Fee withdrawal failed")
        ELSE Success(Emit(call.s, "PlatformFeesWithdrawn", <<_to, amount>>))

(* withdrawPlatformFees that does not zero the accumulator *)
withdrawPlatformFees_NoReset(s, sender, _to, beh) ==
  IF ~(sender = s.owner) THEN Revert(s, "Not authorized: Owner only")
  ELSE IF ~(_to # ZeroAddress) THEN Revert(s, "Invalid recipient address")
  ELSE IF ~(s.platformFees > 0) THEN Revert(s, "No fees to withdraw")
  ELSE
    LET amount == s.platformFees
        call == SendValue(s, _to, amount, 0, beh)
    IN  IF ~call.sent THEN Revert(s, "Fee withdrawal failed")
        ELSE Success(Emit(call.s, "PlatformFeesWithdrawn", <<_to, amount>>))

withdrawPlatformFees(s, sender, _to, beh) ==
  IF ~(sender = s.owner) THEN Revert(s, "Not authorized: Owner only")
  ELSE IF ~(_to # ZeroAddress) THEN Revert(s, "Invalid recipient address")
  ELSE IF ~(s.platformFees > 0) THEN Revert(s, "No fees to withdraw")
  ELSE
    LET amount == s.platformFees
        s1 == [s EXCEPT !.platformFees = 0]
        call == SendValue(s1, _to, amount, 0, beh)
    IN  IF ~call.sent THEN Revert(s, "Fee withdrawal failed")
        ELSE Success(Emit(call.s, "PlatformFeesWithdrawn", <<_to, amount>>))

(* setCallbackTimeout that also moves the deadline of the pending requests *)
setCallbackTimeout_Retroactive(s, sender, _newTimeout) ==
  IF ~(sender = s.owner) THEN Revert(s, "Not authorized: Owner only")
  ELSE IF ~(_newTimeout >= MIN_CALLBACK_TIMEOUT)
  THEN Revert(s, "Timeout too short")
  ELSE IF ~(_newTimeout <= MAX_CALLBACK_TIMEOUT)
  THEN Revert(s, "Timeout too long")
  ELSE
    LET moved == [r \in DOMAIN s.matchingRequests |->
                   IF s.matchingRequests[r].isActive
                   THEN [s.matchingRequests[r] EXCEPT
                          !.timeoutDeadline =
                              s.matchingRequests[r].requestTime + _newTimeout]
                   ELSE s.matchingRequests[r]]
    IN  Success(Emit([s EXCEPT !.callbackTimeout = _newTimeout,
                               !.matchingRequests = moved],
                     "CallbackTimeoutUpdated", <<_newTimeout>>))

(* setCallbackTimeout without the upper bound *)
setCallbackTimeout_NoUpperBound(s, sender, _newTimeout) ==
  IF ~(sender = s.owner) THEN Revert(s, "Not authorized: Owner only")
  ELSE IF ~(_newTimeout >= MIN_CALLBACK_TIMEOUT)
  THEN Revert(s, "Timeout too short")
  ELSE Success(Emit([s EXCEPT !.callbackTimeout = _newTimeout],
                    "CallbackTimeoutUpdated", <<_newTimeout>>))

setCallbackTimeout(s, sender, _newTimeout) ==
  IF ~(sender = s.owner) THEN Revert(s, "Not authorized: Owner only")
  ELSE IF ~(_newTimeout >= MIN_CALLBACK_TIMEOUT)
  THEN Revert(s, "Timeout too short")
  ELSE IF ~(_newTimeout <= MAX_CALLBACK_TIMEOUT)
  THEN Revert(s, "Timeout too long")
  ELSE Success(Emit([s EXCEPT !.callbackTimeout = _newTimeout],
                    "CallbackTimeoutUpdated", <<_newTimeout>>))

togglePause(s, sender) ==
  IF ~(sender = s.owner) THEN Revert(s, "Not authorized: Owner only")
  ELSE
    LET s1 == [s EXCEPT !.isPaused = ~@]
    IN  Success(Emit(s1, "EmergencyPauseToggled", <<s1.isPaused>>))

transferOwnership(s, sender, _newOwner) ==
  IF ~(sender = s.owner) THEN Revert(s, "Not authorized: Owner only")
  ELSE IF ~(_newOwner # ZeroAddress) THEN Revert(s, "Invalid new owner")
  ELSE
    LET previousOwner == s.owner
    IN  Success(Emit([s EXCEPT !.owner = _newOwner],
                     "OwnershipTransferred", <<previousOwner, _newOwner>>))

(***************************************************************************)
(* Utility functions (views)                                               *)
(***************************************************************************)
(* canClaimTimeoutRefund that already answers true at the deadline itself *)
canClaimTimeoutRefund_AtDeadline(s, _requestId) ==
  IF _requestId = 0 \/ _requestId >= s.nextRequestId THEN FALSE
  ELSE
    LET request == RequestAt(s, _requestId)
    IN  /\ ~request.isCompleted
        /\ ~request.isRefunded
        /\ request.isActive
        /\ s.now >= request.timeoutDeadline

canClaimTimeoutRefund(s, _requestId) ==
  IF _requestId = 0 \/ _requestId >= s.nextRequestId THEN FALSE
  ELSE
    LET request == RequestAt(s, _requestId)
    IN  /\ ~request.isCompleted
        /\ ~request.isRefunded
        /\ request.isActive
        /\ s.now > request.timeoutDeadline

getTotalPets(s) == s.nextPetId - 1

(* receive() external payable {} *)
receive(s, value) == Success([s EXCEPT !.balance = @ + value])

(***************************************************************************)
(* Inputs of the transactions                                              *)
(***************************************************************************)
Relayer == "relayer"

DNA(m1, m2, m3, m4, h, t) ==
  [marker1 |-> m1, marker2 |-> m2, marker3 |-> m3, marker4 |-> m4,
   healthRisk |-> h, temperament |-> t, isActive |-> FALSE]

(* against DNA(0,0,0,0,0,0): raw scores 717 (-> 70) and 716 (-> 69) *)
Registration(n, b, a, d, p) ==
  [name |-> n, breed |-> b, age |-> a, dna |-> d, proof |-> p]

ValidRegistrations ==
  { Registration(1, 50, 1, DNA(0, 0, 0, 0, 0, 0), TRUE),
    Registration(50, 1, 30, DNA(255, 255, 7, 0, 0, 0), TRUE),
    Registration(50, 50, 30, DNA(255, 255, 6, 0, 0, 0), TRUE) }

InvalidRegistrations ==
  { Registration(0, 1, 1, DNA(0, 0, 0, 0, 0, 0), TRUE),
    Registration(51, 1, 1, DNA(0, 0, 0, 0, 0, 0), TRUE),
    Registration(1, 0, 1, DNA(0, 0, 0, 0, 0, 0), TRUE),
    Registration(1, 51, 1, DNA(0, 0, 0, 0, 0, 0), TRUE),
    Registration(1, 1, 0, DNA(0, 0, 0, 0, 0, 0), TRUE),
    Registration(1, 1, 31, DNA(0, 0, 0, 0, 0, 0), TRUE),
    Registration(1, 1, 1, DNA(0, 0, 0, 0, 0, 0), FALSE) }

RegisterInputs == ValidRegistrations \cup InvalidRegistrations

PaymentInputs == {MATCHING_FEE - 1, MATCHING_FEE, MATCHING_FEE + 1}

TimeoutInputs ==
  {MIN_CALLBACK_TIMEOUT - 1, MIN_CALLBACK_TIMEOUT, DEFAULT_CALLBACK_TIMEOUT,
   MAX_CALLBACK_TIMEOUT, MAX_CALLBACK_TIMEOUT + 1}

(* the next block is mined exactly at the deadline of a pending request,   *)
(* or one second after it                                                  *)
TimeSteps ==
  { matchingRequests[r].timeoutDeadline - now :
      r \in { q \in RequestIds :
                /\ matchingRequests[q].isActive
                /\ matchingRequests[q].timeoutDeadline > now } }
  \cup
  { 1 : r \in { q \in RequestIds :
                  /\ matchingRequests[q].isActive
                  /\ matchingRequests[q].timeoutDeadline = now } }


(***************************************************************************)
(* Initial state: the constructor has run                                  *)
(***************************************************************************)
Init ==
  /\ owner = Deployer
  /\ nextPetId = 1
  /\ nextRequestId = 1
  /\ platformFees = 0
  /\ callbackTimeout = DEFAULT_CALLBACK_TIMEOUT
  /\ isPaused = FALSE
  /\ pets = [p \in PetIds |-> EmptyPet]
  /\ matchingRequests = [r \in RequestIds |-> EmptyRequest]
  /\ ownerToPets = [a \in Addresses |-> <<>>]
  /\ requestIdByDecryptionId = [d \in DecryptionIds |-> 0]
  /\ balance = 0
  /\ events = BagAdd(EmptyBag,
                      Event("OwnershipTransferred", <<ZeroAddress, Deployer>>))
  /\ decryptionCounter = 0
  /\ transfers = EmptyBag
  /\ credited = [r \in RequestIds |-> 0]
  /\ now = 1
  /\ donations = 0
  /\ adminCalls = 0

(***************************************************************************)
(* Transactions.  A transaction that reverts leaves no trace on the chain, *)
(* so only the calls that pass every require are steps.  Requests, admin   *)
(* calls and plain payments are unbounded in the contract; a behaviour of  *)
(* the model holds at most MaxOps of them.                                 *)
(***************************************************************************)
OpsUsed == (nextRequestId - 1) + adminCalls + donations

RegisterPet ==
  \E sender \in Addresses, in \in RegisterInputs :
    LET r == registerPet(State, sender, in.name, in.breed, in.age, in.dna,
                         in.proof)
    IN  /\ nextPetId <= MaxPets
        /\ r.ok
        /\ Commit(r.s)
        /\ UNCHANGED <<now, donations, adminCalls>>

RequestMatching ==
  \E sender \in Addresses, value \in PaymentInputs,
     _petId1 \in 0..MaxPets, _petId2 \in 0..MaxPets :
    LET r == requestMatching(State, sender, value, _petId1, _petId2)
    IN  /\ OpsUsed < MaxOps
        /\ r.ok
        /\ Commit(r.s)
        /\ UNCHANGED <<now, donations, adminCalls>>

ProcessMatchingCallback ==
  \E decryptionRequestId \in DecryptionIds, proofValid \in BOOLEAN,
     beh \in Behaviours :
    LET r == processMatchingCallback(State, Relayer, decryptionRequestId,
                                     proofValid, beh)
    IN  /\ r.ok
        /\ Commit(r.s)
        /\ UNCHANGED <<now, donations, adminCalls>>

ClaimTimeoutRefund ==
  \E sender \in Addresses, _requestId \in 0..MaxOps, beh \in Behaviours :
    LET r == claimTimeoutRefund(State, sender, _requestId, beh)
    IN  /\ r.ok
        /\ Commit(r.s)
        /\ UNCHANGED <<now, donations, adminCalls>>

ToggleBreedingStatus ==
  \E sender \in Addresses, _petId \in 0..MaxPets :
    LET r == toggleBreedingStatus(State, sender, _petId)
    IN  /\ OpsUsed < MaxOps
        /\ r.ok
        /\ Commit(r.s)
        /\ adminCalls' = adminCalls + 1
        /\ UNCHANGED <<now, donations>>

WithdrawPlatformFees ==
  \E sender \in Addresses, _to \in Addresses \cup {ZeroAddress},
     beh \in Behaviours :
    LET r == withdrawPlatformFees(State, sender, _to, beh)
    IN  /\ r.ok
        /\ Commit(r.s)
        /\ UNCHANGED <<now, donations, adminCalls>>

SetCallbackTimeout ==
  \E sender \in Addresses, _newTimeout \in TimeoutInputs :
    LET r == setCallbackTimeout(State, sender, _newTimeout)
    IN  /\ OpsUsed < MaxOps
        /\ r.ok
        /\ Commit(r.s)
        /\ adminCalls' = adminCalls + 1
        /\ UNCHANGED <<now, donations>>

TogglePause ==
  \E sender \in Addresses :
    LET r == togglePause(State, sender)
    IN  /\ OpsUsed < MaxOps
        /\ r.ok
        /\ Commit(r.s)
        /\ adminCalls' = adminCalls + 1
        /\ UNCHANGED <<now, donations>>

TransferOwnership ==
  \E sender \in Addresses, _newOwner \in Addresses \cup {ZeroAddress} :
    LET r == transferOwnership(State, sender, _newOwner)
    IN  /\ OpsUsed < MaxOps
        /\ r.ok
        /\ Commit(r.s)
        /\ adminCalls' = adminCalls + 1
        /\ UNCHANGED <<now, donations>>

Receive ==
  /\ OpsUsed < MaxOps
  /\ LET r == receive(State, 1)
     IN  /\ r.ok
         /\ Commit(r.s)
  /\ donations' = donations + 1
  /\ UNCHANGED <<now, adminCalls>>

(* time passes between blocks *)
Tick ==
  /\ \E d \in TimeSteps : now' = now + d
  /\ UNCHANGED <<chain, donations, adminCalls>>

Next ==
  \/ RegisterPet
  \/ RequestMatching
  \/ ProcessMatchingCallback
  \/ ClaimTimeoutRefund
  \/ ToggleBreedingStatus
  \/ WithdrawPlatformFees
  \/ SetCallbackTimeout
  \/ TogglePause
  \/ TransferOwnership
  \/ Receive
  \/ Tick

Spec == Init /\ [][Next]_vars

(***************************************************************************)
(* The score computation on its own.  The DNA attributes of a pet are      *)
(* encrypted 8-bit inputs that registerPet stores unchecked, so any value  *)
(* in 0..255 can be on record.  SpecScore starts where two owners have     *)
(* each registered one pet, with profiles drawn from the sets below, and   *)
(* lets them request matchings and the gateway answer.                     *)
(***************************************************************************)
Byte == 0..255

(* the first pet: every value of one marker against an otherwise empty     *)
(* profile, and the health risk and temperament values around the points   *)
(* where 200 - |t1 - t2| and the final subtraction reach zero              *)
ScoreProfiles1 ==
  { DNA(a, 0, 0, 0, 0, 0) : a \in Byte }
  \cup { DNA(0, 0, 0, 0, h, t) : h \in {0, 1, 200, 201, 255},
                                 t \in {0, 200, 201, 255} }

(* the second pet: both ends of the marker range *)
ScoreProfiles2 == { DNA(0, 0, 0, 0, 0, 0), DNA(255, 0, 0, 0, 0, 0) }

(* the storage the constructor leaves, on a chain with no history *)
constructor ==
  [owner |-> Deployer, nextPetId |-> 1, nextRequestId |-> 1,
   platformFees |-> 0, callbackTimeout |-> DEFAULT_CALLBACK_TIMEOUT,
   isPaused |-> FALSE, pets |-> [p \in PetIds |-> EmptyPet],
   matchingRequests |-> [r \in RequestIds |-> EmptyRequest],
   ownerToPets |-> [a \in Addresses |-> <<>>],
   requestIdByDecryptionId |-> [d \in DecryptionIds |-> 0],
   balance |-> 0,
   events |-> BagAdd(EmptyBag,
                     Event("OwnershipTransferred", <<ZeroAddress, Deployer>>)),
   decryptionCounter |-> 0, transfers |-> EmptyBag,
   credited |-> [r \in RequestIds |-> 0], now |-> 1]

InitScore ==
  \E dna1 \in ScoreProfiles1, dna2 \in ScoreProfiles2 :
    LET s1 == registerPet(constructor, Deployer, 1, 1, 1, dna1, TRUE).s
        s == registerPet(s1, "alice", 1, 1, 1, dna2, TRUE).s
    IN  /\ owner = s.owner
        /\ nextPetId = s.nextPetId
        /\ nextRequestId = s.nextRequestId
        /\ platformFees = s.platformFees
        /\ callbackTimeout = s.callbackTimeout
        /\ isPaused = s.isPaused
        /\ pets = s.pets
        /\ matchingRequests = s.matchingRequests
        /\ ownerToPets = s.ownerToPets
        /\ requestIdByDecryptionId = s.requestIdByDecryptionId
        /\ balance = s.balance
        /\ events = s.events
        /\ decryptionCounter = s.decryptionCounter
        /\ transfers = s.transfers
        /\ credited = s.credited
        /\ now = s.now
        /\ donations = 0
        /\ adminCalls = 0

NextScore ==
  \/ RequestMatching
  \/ ProcessMatchingCallback

SpecScore == InitScore /\ [][NextScore]_vars

(***************************************************************************)
(* Properties                                                              *)
(***************************************************************************)
Callers == Addresses \cup {Relayer}

Created(r) == r < nextRequestId

RECURSIVE SumCounts(_, _)
SumCounts(b, S) ==
  IF S = {} THEN 0
  ELSE LET e == CHOOSE x \in S : TRUE
       IN  b[e] + SumCounts(b, S \ {e})

(* sum of count * e[i] over the entries e in S of the multiset b *)
RECURSIVE SumField(_, _, _)
SumField(b, S, i) ==
  IF S = {} THEN 0
  ELSE LET e == CHOOSE x \in S : TRUE
       IN  b[e] * e[i] + SumField(b, S \ {e}, i)

EventsNamed(s, names) == { e \in DOMAIN s.events : e[1] \in names }

(* successful callbacks and timeout claims of request r *)
TerminalTransitions(s, r) ==
  SumCounts(s.events,
            { e \in EventsNamed(s, {"MatchingCompleted", "TimeoutTriggered"}) :
                e[2] = r })

TransfersFor(s, r) == { e \in DOMAIN s.transfers : e[3] = r }

(* the amount transferred out on behalf of request r *)
TransferredFor(s, r) == SumField(s.transfers, TransfersFor(s, r), 2)

(* C1: per request at most one processMatchingCallback or
   claimTimeoutRefund ever performs the terminal transition: the log holds
   at most one MatchingCompleted or TimeoutTriggered entry for it, a call
   that is accepted takes the request from Active to not Active, and a call
   that is not accepted returns the state it started from. *)
C1_SingleTerminalTransition ==
  \A r \in RequestIds :
    Created(r) =>
      /\ TerminalTransitions(State, r) <= 1
      /\ (TerminalTransitions(State, r) = 1) = ~matchingRequests[r].isActive
      /\ \A sender \in Callers, beh \in Behaviours :
           LET res == claimTimeoutRefund(State, sender, r, beh)
           IN  IF res.ok
               THEN /\ matchingRequests[r].isActive
                    /\ ~res.s.matchingRequests[r].isActive
                    /\ TerminalTransitions(res.s, r) = 1
               ELSE res.s = State
      /\ \A proofValid \in BOOLEAN, beh \in Behaviours :
           LET res == processMatchingCallback(State, Relayer,
                        matchingRequests[r].decryptionRequestId, proofValid, beh)
           IN  IF res.ok
               THEN /\ matchingRequests[r].isActive
                    /\ ~res.s.matchingRequests[r].isActive
                    /\ TerminalTransitions(res.s, r) = 1
               ELSE res.s = State

(* a request settled by its callback, for which a timeout claim arriving
   after the deadline is turned away *)
C1_Witness ==
  \E r \in RequestIds :
    /\ Created(r)
    /\ matchingRequests[r].isCompleted
    /\ now > matchingRequests[r].timeoutDeadline
    /\ TerminalTransitions(State, r) = 1
    /\ ~claimTimeoutRefund(State, "alice", r, LeafBehaviour("accept")).ok

(* C2: the paid fee of a request is moved exactly once: nothing is credited
   or transferred for it while it is Active, and once it is not Active
   either exactly paidFee was credited to platformFees and nothing
   transferred, or nothing was credited and exactly one transfer of paidFee
   went to the requester. *)
C2_FeeMovedExactlyOnce ==
  \A r \in RequestIds :
    Created(r) =>
      LET q == matchingRequests[r]
          moved == TransferredFor(State, r)
      IN  /\ q.isActive => (credited[r] = 0 /\ moved = 0)
          /\ ~q.isActive =>
               \/ credited[r] = q.paidFee /\ moved = 0
               \/ /\ credited[r] = 0
                  /\ TransfersFor(State, r) = {<<q.requester, q.paidFee, r>>}
                  /\ transfers[<<q.requester, q.paidFee, r>>] = 1

(* one request whose fee was retained next to one whose fee was refunded *)
C2_Witness ==
  \E r1 \in RequestIds, r2 \in RequestIds :
    /\ Created(r1) /\ Created(r2)
    /\ credited[r1] = MATCHING_FEE
    /\ TransferredFor(State, r2) = MATCHING_FEE

(* C3: a callback with a proof that verifies, delivered for an Active
   request when now > timeoutDeadline, is rejected and changes nothing,
   whatever the recipient of a refund would do. *)
C3_NoLateCallback ==
  \A r \in RequestIds, beh \in Behaviours :
    ( /\ Created(r)
      /\ matchingRequests[r].isActive
      /\ now > matchingRequests[r].timeoutDeadline )
    => LET res == processMatchingCallback(State, Relayer,
                    matchingRequests[r].decryptionRequestId, TRUE, beh)
       IN  ~res.ok /\ res.s = State

(* an Active request past its deadline that never received a callback, and
   whose first callback is turned away as timed out *)
C3_Witness ==
  \E r \in RequestIds :
    /\ Created(r)
    /\ matchingRequests[r].isActive
    /\ now > matchingRequests[r].timeoutDeadline
    /\ processMatchingCallback(State, Relayer,
         matchingRequests[r].decryptionRequestId, TRUE,
         LeafBehaviour("accept")).err = "Request has timed out"

(* C4: every claimTimeoutRefund made for a request that is still Active
   after its deadline succeeds, whoever calls and whoever the requester is
   (whatever the requester's account does when it receives the refund). *)
C4_TimeoutClaimAlwaysSucceeds ==
  \A r \in RequestIds, sender \in Callers, beh \in Behaviours :
    ( /\ Created(r)
      /\ matchingRequests[r].isActive
      /\ now > matchingRequests[r].timeoutDeadline )
    => claimTimeoutRefund(State, sender, r, beh).ok

(* C5: replays are rejected: once a timeout claim has succeeded for a
   request every further claimTimeoutRefund for it is rejected, and once a
   request is settled every callback for it is rejected; the rejected call
   returns the state unchanged, and the log never holds two MatchingRefunded
   entries nor the ledger two transfers for one request. *)
C5_ReplaysRejected ==
  \A r \in RequestIds :
    Created(r) =>
      LET claimed == { e \in EventsNamed(State, {"TimeoutTriggered"}) : e[2] = r }
          settled == { e \in EventsNamed(State, {"TimeoutTriggered",
                                                 "MatchingCompleted",
                                                 "MatchingRefunded"}) : e[2] = r }
          refunds == { e \in EventsNamed(State, {"MatchingRefunded"}) : e[2] = r }
      IN  /\ claimed # {} =>
                \A sender \in Callers, beh \in Behaviours :
                  LET res == claimTimeoutRefund(State, sender, r, beh)
                  IN  ~res.ok /\ res.s = State
          /\ settled # {} =>
                \A beh \in Behaviours :
                  LET res == processMatchingCallback(State, Relayer,
                               matchingRequests[r].decryptionRequestId, TRUE, beh)
                  IN  ~res.ok /\ res.s = State
          /\ SumCounts(events, refunds) <= 1
          /\ SumCounts(transfers, TransfersFor(State, r)) <= 1

(* a request refunded by a timeout claim, on which a second claim and a
   late callback are both turned away *)
C5_Witness ==
  \E r \in RequestIds :
    /\ Created(r)
    /\ matchingRequests[r].isRefunded
    /\ ~matchingRequests[r].isCompleted
    /\ TransferredFor(State, r) = MATCHING_FEE
    /\ claimTimeoutRefund(State, "alice", r, LeafBehaviour("accept")).err
         = "Request is not active"
    /\ processMatchingCallback(State, Relayer,
         matchingRequests[r].decryptionRequestId, TRUE,
         LeafBehaviour("accept")).err = "Request is not active"

(* C6: no request is ever both completed and refunded. *)
C6_CompletedRefundedExclusive ==
  \A r \in RequestIds :
    ~(matchingRequests[r].isCompleted /\ matchingRequests[r].isRefunded)

(* C7: an accepted callback settles by the threshold, inclusive at 70: with
   a normalized score >= 70 the request becomes Completed, platformFees
   grows by exactly paidFee and nothing is transferred; with a score <= 69
   it becomes Completed, exactly paidFee is transferred to the requester
   and nothing is credited for it (platformFees itself is unchanged when
   the recipient makes no nested call). *)
C7_ThresholdSettlement ==
  \A r \in RequestIds, beh \in Behaviours :
    Created(r) =>
      LET q == matchingRequests[r]
          res == processMatchingCallback(State, Relayer, q.decryptionRequestId,
                                         TRUE, beh)
          norm == _normalizeScore(q.encryptedScore)
          after == res.s.matchingRequests[r]
      IN  res.ok =>
            /\ after.isCompleted /\ ~after.isActive
            /\ after.compatibilityScore = norm
            /\ norm >= 70 =>
                 /\ res.s.platformFees = platformFees + q.paidFee
                 /\ res.s.credited[r] = q.paidFee
                 /\ res.s.transfers = transfers
                 /\ res.s.balance = balance
            /\ norm <= 69 =>
                 /\ res.s.credited[r] = 0
                 /\ TransfersFor(res.s, r) = {<<q.requester, q.paidFee, r>>}
                 /\ res.s.transfers[<<q.requester, q.paidFee, r>>] = 1
                 /\ beh \in LeafBehaviours =>
                      /\ res.s.platformFees = platformFees
                      /\ res.s.balance = balance - q.paidFee

(* a request completed with a score of exactly 70 whose fee was retained *)
C7_Witness ==
  \E r \in RequestIds :
    /\ Created(r)
    /\ matchingRequests[r].isCompleted
    /\ matchingRequests[r].compatibilityScore = 70
    /\ credited[r] = MATCHING_FEE
    /\ platformFees >= MATCHING_FEE
    /\ TransfersFor(State, r) = {}

RECURSIVE SumPaidFee(_)
SumPaidFee(S) ==
  IF S = {} THEN 0
  ELSE LET r == CHOOSE x \in S : TRUE
       IN  matchingRequests[r].paidFee + SumPaidFee(S \ {r})

CreatedRequests == { r \in RequestIds : Created(r) }
ActiveRequests == { r \in CreatedRequests : matchingRequests[r].isActive }

RefundsIssued ==
  SumField(events, EventsNamed(State, {"MatchingRefunded"}), 4)
FeesWithdrawn ==
  SumField(events, EventsNamed(State, {"PlatformFeesWithdrawn"}), 3)

(* C8 as stated: platformFees plus the refunds issued equals the fees paid
   at request creation. *)
C8_FeeConservationAsStated ==
  platformFees + RefundsIssued = SumPaidFee(CreatedRequests)

(* C8, amended: platformFees plus the fees withdrawn by the owner plus the
   refunds issued (as the log reports them) equals the fees paid for the
   requests that are no longer Active. *)
C8_FeeConservation ==
  platformFees + FeesWithdrawn + RefundsIssued
    = SumPaidFee(CreatedRequests \ ActiveRequests)

(* fees were retained and withdrawn, and another request was refunded *)
C8_Witness ==
  /\ FeesWithdrawn = MATCHING_FEE
  /\ RefundsIssued = MATCHING_FEE
  /\ platformFees = 0

RefundedAmount ==
  SumField(transfers, { e \in DOMAIN transfers : e[3] # 0 }, 2)
WithdrawnAmount ==
  SumField(transfers, { e \in DOMAIN transfers : e[3] = 0 }, 2)

(* C9 as stated: the sum of paidFee over all requests equals platformFees
   plus the refunded amounts plus the fees of the Active requests. *)
C9_LedgerAsStated ==
  SumPaidFee(CreatedRequests)
    = platformFees + RefundedAmount + SumPaidFee(ActiveRequests)

(* C9, amended: the sum of paidFee over all requests equals platformFees
   plus the amounts withdrawn by the owner plus the amounts transferred
   back as refunds plus the fees of the Active requests. *)
C9_Ledger ==
  SumPaidFee(CreatedRequests)
    = platformFees + WithdrawnAmount + RefundedAmount
      + SumPaidFee(ActiveRequests)

(* the retained fee of one request was withdrawn while another is pending *)
C9_Witness ==
  /\ WithdrawnAmount = MATCHING_FEE
  /\ ActiveRequests # {}
  /\ platformFees = 0

(* C10: terminal states are absorbing: once a request is completed or
   refunded no step changes any of its fields. *)
C10_TerminalAbsorbing ==
  [][ \A r \in RequestIds :
        (matchingRequests[r].isCompleted \/ matchingRequests[r].isRefunded)
        => matchingRequests'[r] = matchingRequests[r] ]_vars

(* a request was settled while another one was already terminal *)
C10_Witness ==
  /\ CreatedRequests = RequestIds
  /\ ActiveRequests = {}
  /\ \E r \in RequestIds : matchingRequests[r].isRefunded
  /\ \E r \in RequestIds : matchingRequests[r].isCompleted

(* C11: claimTimeoutRefund does not depend on who calls it: for an Active
   request past its deadline it succeeds for every caller, and exactly one
   transfer is made for the request, of the full paidFee to the original
   requester. *)
C11_ClaimByAnyCallerPaysRequester ==
  \A r \in RequestIds, sender \in Callers, beh \in Behaviours :
    ( /\ Created(r)
      /\ matchingRequests[r].isActive
      /\ now > matchingRequests[r].timeoutDeadline )
    => LET q == matchingRequests[r]
           res == claimTimeoutRefund(State, sender, r, beh)
       IN  /\ res.ok
           /\ res.s.matchingRequests[r].isRefunded
           /\ TransfersFor(res.s, r) = {<<q.requester, q.paidFee, r>>}
           /\ res.s.transfers[<<q.requester, q.paidFee, r>>] = 1

(* C12: a claimTimeoutRefund made while now <= timeoutDeadline, the deadline
   itself included, is rejected whoever calls and whatever the recipient
   would do: the state it returns is the state it started from, so the
   request stays Active and nothing is transferred. *)
C12_NoClaimBeforeDeadline ==
  \A r \in RequestIds, sender \in Callers, beh \in Behaviours :
    ( /\ Created(r)
      /\ now <= matchingRequests[r].timeoutDeadline )
    => LET res == claimTimeoutRefund(State, sender, r, beh)
       IN  /\ ~res.ok
           /\ res.s = State
           /\ res.s.matchingRequests[r].isActive = matchingRequests[r].isActive
           /\ res.s.transfers = transfers

(* an Active request exactly at its deadline, on which a claim is turned
   away as too early *)
C12_Witness ==
  \E r \in RequestIds :
    /\ Created(r)
    /\ matchingRequests[r].isActive
    /\ now = matchingRequests[r].timeoutDeadline
    /\ claimTimeoutRefund(State, "alice", r, LeafBehaviour("accept")).err
         = "Timeout not reached yet"

(* decryption request ids this contract has dispatched *)
Dispatched ==
  { matchingRequests[r].decryptionRequestId : r \in CreatedRequests }

(* C13: the callback fails closed: a processMatchingCallback whose proof
   does not verify, or whose decryption request id was never dispatched by
   this contract, is rejected and returns the state it started from (no
   request, no ledger value and no log entry changes), whoever delivers it
   and whatever a refund recipient would do. *)
C13_CallbackFailsClosed ==
  \A d \in 0..(MaxOps + 1), sender \in Callers, beh \in Behaviours :
    /\ LET res == processMatchingCallback(State, sender, d, FALSE, beh)
       IN  /\ ~res.ok
           /\ res.s = State
    /\ d \notin Dispatched =>
         LET res == processMatchingCallback(State, sender, d, TRUE, beh)
         IN  /\ ~res.ok
             /\ res.s = State

(* an Active request before its deadline, whose callback would be accepted
   with a proof that verifies: the same callback with a proof that does not
   verify, and a callback for an id never dispatched, are both turned away *)
C13_Witness ==
  \E r \in RequestIds :
    LET q == matchingRequests[r]
    IN  /\ Created(r)
        /\ q.isActive
        /\ now <= q.timeoutDeadline
        /\ processMatchingCallback(State, Relayer, q.decryptionRequestId, TRUE,
                                   LeafBehaviour("accept")).ok
        /\ processMatchingCallback(State, Relayer, q.decryptionRequestId, FALSE,
                                   LeafBehaviour("accept")).err
             = "Invalid signatures"
        /\ decryptionCounter \notin Dispatched
        /\ processMatchingCallback(State, Relayer, decryptionCounter, TRUE,
                                   LeafBehaviour("accept")).err
             = "Invalid decryption request"

(* the recipient's nested call targets request r itself *)
ReentersSameRequest(beh, r) ==
  /\ beh.kind = "reenter"
  /\ \/ beh.op = "claimTimeoutRefund" /\ beh.id = r
     \/ /\ beh.op = "processMatchingCallback"
        /\ beh.id = matchingRequests[r].decryptionRequestId

(* C14: reentrancy during a refund is harmless: when the recipient of the
   refund of request r calls claimTimeoutRefund or processMatchingCallback
   for r again from inside the transfer, the nested call is rejected.  So
   the outer call succeeds only if the recipient swallows that rejection,
   and then exactly one transfer of paidFee has been made for r; otherwise
   the outer call is rejected as a whole and nothing changes. *)
C14_ReentrantRefundHarmless ==
  \A r \in RequestIds, sender \in Callers, beh \in Behaviours :
    (Created(r) /\ ReentersSameRequest(beh, r)) =>
      LET q == matchingRequests[r]
          Harmless(res) ==
            /\ ~res.ok => res.s = State
            /\ (res.ok /\ TransfersFor(res.s, r) # {}) =>
                 /\ beh.swallow
                 /\ TransfersFor(res.s, r) = {<<q.requester, q.paidFee, r>>}
                 /\ res.s.transfers[<<q.requester, q.paidFee, r>>] = 1
                 /\ res.s.balance = balance - q.paidFee
                 /\ res.s.platformFees = platformFees
      IN  /\ Harmless(claimTimeoutRefund(State, sender, r, beh))
          /\ Harmless(processMatchingCallback(State, sender,
                        q.decryptionRequestId, TRUE, beh))

(* the contract holds the fees of two pending requests, one past its
   deadline and one below the threshold before its deadline: a claim for
   the first and a callback for the second both go through with a recipient
   that re-enters for the same request and swallows the rejection *)
C14_Witness ==
  \E r1 \in RequestIds, r2 \in RequestIds :
    LET q1 == matchingRequests[r1]
        q2 == matchingRequests[r2]
    IN  /\ Created(r1) /\ Created(r2)
        /\ q1.isActive /\ now > q1.timeoutDeadline
        /\ q2.isActive /\ now <= q2.timeoutDeadline
        /\ _normalizeScore(q2.encryptedScore) < MIN_COMPATIBILITY_SCORE
        /\ balance >= q1.paidFee + q2.paidFee
        /\ claimTimeoutRefund(State, "alice", r1,
             [kind |-> "reenter", op |-> "claimTimeoutRefund", id |-> r1,
              swallow |-> TRUE]).ok
        /\ ~claimTimeoutRefund(State, "alice", r1,
              [kind |-> "reenter", op |-> "claimTimeoutRefund", id |-> r1,
               swallow |-> FALSE]).ok
        /\ processMatchingCallback(State, Relayer, q2.decryptionRequestId, TRUE,
             [kind |-> "reenter", op |-> "processMatchingCallback",
              id |-> q2.decryptionRequestId, swallow |-> TRUE]).ok

(* C15: a failed value transfer aborts the whole operation as one unit.  If
   the recipient refuses the refund made by claimTimeoutRefund or by a
   callback below the threshold, the call is rejected and the request is
   still Active with its flags and score unchanged and platformFees
   unchanged; if the recipient refuses the transfer of withdrawPlatformFees
   the call is rejected and platformFees keeps its value.  The same holds
   when the transfer fails because the recipient's nested call failed. *)
C15_FailedTransferRollsBack ==
  LET refuse == LeafBehaviour("reject")
      Aborted(res) == ~res.ok /\ res.s = State
  IN  /\ \A r \in RequestIds, sender \in Callers :
           LET q == matchingRequests[r]
               claim == claimTimeoutRefund(State, sender, r, refuse)
               callback == processMatchingCallback(State, sender,
                             q.decryptionRequestId, TRUE, refuse)
               Untouched(res) ==
                 /\ Aborted(res)
                 /\ res.s.matchingRequests[r] = q
                 /\ res.s.matchingRequests[r].isActive
                 /\ res.s.platformFees = platformFees
                 /\ res.s.balance = balance
           IN  (Created(r) /\ q.isActive) =>
                 /\ now > q.timeoutDeadline => Untouched(claim)
                 /\ ( /\ now <= q.timeoutDeadline
                      /\ ~isSuccessfulMatch(_normalizeScore(q.encryptedScore)) )
                    => Untouched(callback)
      /\ \A _to \in Addresses :
           LET res == withdrawPlatformFees(State, owner, _to, refuse)
           IN  platformFees > 0 =>
                 (Aborted(res) /\ res.s.platformFees = platformFees)
      /\ \A r \in RequestIds, sender \in Callers, beh \in Behaviours :
           LET claim == claimTimeoutRefund(State, sender, r, beh)
               callback == processMatchingCallback(State, sender,
                             matchingRequests[r].decryptionRequestId, TRUE, beh)
           IN  /\ ~claim.ok => claim.s = State
               /\ ~callback.ok => callback.s = State
      /\ \A sender \in Callers, _to \in Addresses, beh \in Behaviours :
           LET res == withdrawPlatformFees(State, sender, _to, beh)
           IN  ~res.ok => res.s = State

(* retained fees are waiting to be withdrawn and a request is pending past
   its deadline: the withdrawal and the timeout claim both fail on the
   transfer when the recipient refuses it *)
C15_Witness ==
  /\ platformFees > 0
  /\ withdrawPlatformFees(State, owner, "alice", LeafBehaviour("reject")).err
       = "Fee withdrawal failed"
  /\ \E r \in RequestIds :
       /\ Created(r)
       /\ matchingRequests[r].isActive
       /\ now > matchingRequests[r].timeoutDeadline
       /\ claimTimeoutRefund(State, "alice", r, LeafBehaviour("reject")).err
            = "Refund transfer failed"

(* C16: every rejected operation leaves the complete state (pets, requests,
   correlation map, counters, platformFees, pause flag, timeout, balance
   and event log) exactly as it was before the call: whatever the
   operation, the caller, the arguments and the behaviour of a transfer
   recipient, a call that is not accepted returns the state it started
   from.  (registerPet and requestMatching are called while the model
   still has room for the pet or request a successful call would add.) *)
C16_RejectedCallsChangeNothing ==
  LET Unchanged(res) == ~res.ok => res.s = State
  IN  /\ \A sender \in Addresses, in \in RegisterInputs :
           nextPetId <= MaxPets =>
             Unchanged(registerPet(State, sender, in.name, in.breed, in.age,
                                   in.dna, in.proof))
      /\ \A sender \in Callers, value \in PaymentInputs,
            _petId1 \in 0..(MaxPets + 1), _petId2 \in 0..(MaxPets + 1) :
           nextRequestId <= MaxOps =>
             Unchanged(requestMatching(State, sender, value, _petId1, _petId2))
      /\ \A sender \in Callers, d \in 0..(MaxOps + 1), proofValid \in BOOLEAN,
            beh \in Behaviours :
           Unchanged(processMatchingCallback(State, sender, d, proofValid, beh))
      /\ \A sender \in Callers, _requestId \in 0..(MaxOps + 1),
            beh \in Behaviours :
           Unchanged(claimTimeoutRefund(State, sender, _requestId, beh))
      /\ \A sender \in Callers, _petId \in 0..(MaxPets + 1) :
           Unchanged(toggleBreedingStatus(State, sender, _petId))
      /\ \A sender \in Callers, _to \in Addresses \cup {ZeroAddress},
            beh \in Behaviours :
           Unchanged(withdrawPlatformFees(State, sender, _to, beh))
      /\ \A sender \in Callers, _newTimeout \in TimeoutInputs :
           Unchanged(setCallbackTimeout(State, sender, _newTimeout))
      /\ \A sender \in Callers : Unchanged(togglePause(State, sender))
      /\ \A sender \in Callers, _newOwner \in Addresses \cup {ZeroAddress} :
           Unchanged(transferOwnership(State, sender, _newOwner))

(* one state in which a call of each kind is rejected: a validation error,
   a pet and a request that do not exist, a caller without authority, a
   proof that does not verify, a request that is no longer Active, and a
   refund that the recipient refuses after the callback has written *)
C16_Witness ==
  /\ requestMatching(State, owner, MATCHING_FEE + 1, 1, 2).err
       = "Incorrect matching fee"
  /\ toggleBreedingStatus(State, owner, MaxPets + 1).err = "Invalid pet ID"
  /\ claimTimeoutRefund(State, owner, nextRequestId, LeafBehaviour("accept")).err
       = "Invalid request ID"
  /\ togglePause(State, Relayer).err = "Not authorized: Owner only"
  /\ \E r1 \in RequestIds, r2 \in RequestIds :
       LET q1 == matchingRequests[r1]
           q2 == matchingRequests[r2]
       IN  /\ Created(r1) /\ Created(r2)
           /\ ~q1.isActive
           /\ processMatchingCallback(State, Relayer, q1.decryptionRequestId,
                TRUE, LeafBehaviour("accept")).err = "Request is not active"
           /\ q2.isActive
           /\ processMatchingCallback(State, Relayer, q2.decryptionRequestId,
                FALSE, LeafBehaviour("accept")).err = "Invalid signatures"
           /\ processMatchingCallback(State, Relayer, q2.decryptionRequestId,
                TRUE, LeafBehaviour("reject")).err = "Refund transfer failed"

(* C17: requestMatching requires the payment to equal MATCHING_FEE exactly:
   a call that pays less or more is rejected and creates no request,
   whatever its other arguments, so every request on record paid exactly
   the fee. *)
C17_ExactFeeRequired ==
  /\ \A sender \in Callers, value \in PaymentInputs \ {MATCHING_FEE},
        _petId1 \in 0..(MaxPets + 1), _petId2 \in 0..(MaxPets + 1) :
       LET res == requestMatching(State, sender, value, _petId1, _petId2)
       IN  /\ ~res.ok
           /\ res.s = State
           /\ res.s.nextRequestId = nextRequestId
  /\ \A r \in CreatedRequests : matchingRequests[r].paidFee = MATCHING_FEE

(* a call that is accepted with exactly the fee is turned away, for the
   payment alone, with one unit less and with one unit more *)
C17_Witness ==
  /\ nextRequestId <= MaxOps
  /\ \E sender \in Addresses, _petId1 \in PetIds, _petId2 \in PetIds :
       /\ requestMatching(State, sender, MATCHING_FEE, _petId1, _petId2).ok
       /\ requestMatching(State, sender, MATCHING_FEE - 1, _petId1,
                          _petId2).err = "Incorrect matching fee"
       /\ requestMatching(State, sender, MATCHING_FEE + 1, _petId1,
                          _petId2).err = "Incorrect matching fee"

(* C18: requestMatching accepts excess payment: whenever a call is accepted
   with exactly the fee, the same call with a larger value is accepted too,
   creates the request and emits MatchingRequested. *)
C18_ExcessPaymentAccepted ==
  \A sender \in Addresses, _petId1 \in PetIds, _petId2 \in PetIds :
    ( /\ nextRequestId <= MaxOps
      /\ requestMatching(State, sender, MATCHING_FEE, _petId1, _petId2).ok )
    => LET res == requestMatching(State, sender, MATCHING_FEE + 1, _petId1,
                                  _petId2)
       IN  /\ res.ok
           /\ res.s.nextRequestId = nextRequestId + 1
           /\ EventsNamed(res.s, {"MatchingRequested"})
                # EventsNamed(State, {"MatchingRequested"})

(* C19: requestMatching with _petId1 = _petId2 is always rejected, whoever
   calls and whatever is paid, and changes nothing; so no request on record
   references the same pet twice. *)
C19_NoSelfMatch ==
  /\ \A sender \in Callers, value \in PaymentInputs, _petId \in 0..(MaxPets + 1) :
       LET res == requestMatching(State, sender, value, _petId, _petId)
       IN  ~res.ok /\ res.s = State
  /\ \A r \in CreatedRequests :
       matchingRequests[r].petId1 # matchingRequests[r].petId2

(* a pet that is registered and available, whose owner pays the exact fee
   to match it with itself and is turned away for that reason alone, next
   to a request on record for two different pets *)
C19_Witness ==
  /\ \E _petId \in PetIds :
       requestMatching(State, pets[_petId].owner, MATCHING_FEE, _petId,
                       _petId).err = "Cannot match pet with itself"
  /\ CreatedRequests # {}

(* C20: requestMatching is rejected whenever either of the two pets is not
   available for breeding at the time of the call, and changes nothing; a
   call is accepted only if both pets are available, and the request it
   creates names those two pets. *)
C20_BothPetsAvailable ==
  \A sender \in Callers, value \in PaymentInputs,
     _petId1 \in 0..(MaxPets + 1), _petId2 \in 0..(MaxPets + 1) :
    nextRequestId <= MaxOps =>
      LET res == requestMatching(State, sender, value, _petId1, _petId2)
          available == /\ PetAt(State, _petId1).isAvailableForBreeding
                       /\ PetAt(State, _petId2).isAvailableForBreeding
      IN  /\ ~available => (~res.ok /\ res.s = State)
          /\ res.ok =>
               /\ available
               /\ res.s.matchingRequests[nextRequestId].petId1 = _petId1
               /\ res.s.matchingRequests[nextRequestId].petId2 = _petId2

(* one of two registered pets was taken off breeding by its owner: a
   request naming it second is turned away for pet 2, one naming it first
   for pet 1 *)
C20_Witness ==
  /\ nextRequestId <= MaxOps
  /\ \E a \in PetIds, b \in PetIds :
       /\ pets[a].exists /\ pets[a].isAvailableForBreeding
       /\ pets[b].exists /\ ~pets[b].isAvailableForBreeding
       /\ requestMatching(State, pets[a].owner, MATCHING_FEE, a, b).err
            = "Pet 2 not available for breeding"
       /\ requestMatching(State, pets[a].owner, MATCHING_FEE, b, a).err
            = "Pet 1 not available for breeding"

(* C21: requestMatching is rejected when the caller owns neither of the two
   pets, and changes nothing; an accepted call records the caller as the
   requester, so the requester of every request on record owns at least one
   of its two pets (pets never change owner). *)
C21_RequesterOwnsAPet ==
  /\ \A sender \in Callers, value \in PaymentInputs,
        _petId1 \in 0..(MaxPets + 1), _petId2 \in 0..(MaxPets + 1) :
       nextRequestId <= MaxOps =>
         LET res == requestMatching(State, sender, value, _petId1, _petId2)
             owns == \/ sender = PetAt(State, _petId1).owner
                     \/ sender = PetAt(State, _petId2).owner
         IN  /\ ~owns => (~res.ok /\ res.s = State)
             /\ res.ok =>
                  /\ owns
                  /\ res.s.matchingRequests[nextRequestId].requester = sender
  /\ \A r \in CreatedRequests :
       LET q == matchingRequests[r]
       IN  \/ q.requester = pets[q.petId1].owner
           \/ q.requester = pets[q.petId2].owner

(* two available pets of two different owners: a request by one of the
   owners is on record, and the same request by a caller who owns neither
   pet is turned away for that reason *)
C21_Witness ==
  \E r \in CreatedRequests :
    LET q == matchingRequests[r]
    IN  /\ pets[q.petId1].owner # pets[q.petId2].owner
        /\ pets[q.petId1].isAvailableForBreeding
        /\ pets[q.petId2].isAvailableForBreeding
        /\ ~isPaused
        /\ requestMatching(State, Relayer, MATCHING_FEE, q.petId1,
                           q.petId2).err = "Must own at least one pet"

(* C22: while the pause flag is set, every registerPet and every
   requestMatching is rejected, whoever calls and whatever the arguments
   and the payment: the call returns the state it started from, so no pet
   and no request is created and no fee is collected. *)
C22_PausedRejectsNewBusiness ==
  isPaused =>
    /\ \A sender \in Addresses, in \in RegisterInputs :
         LET res == registerPet(State, sender, in.name, in.breed, in.age,
                                in.dna, in.proof)
         IN  /\ ~res.ok
             /\ res.s = State
             /\ res.s.nextPetId = nextPetId
    /\ \A sender \in Callers, value \in PaymentInputs,
          _petId1 \in 0..(MaxPets + 1), _petId2 \in 0..(MaxPets + 1) :
         LET res == requestMatching(State, sender, value, _petId1, _petId2)
         IN  /\ ~res.ok
             /\ res.s = State
             /\ res.s.nextRequestId = nextRequestId
             /\ res.s.balance = balance

(* the contract is paused in a state where, but for the pause, a pet could
   be registered and a request made: both calls are turned away as paused *)
C22_Witness ==
  /\ isPaused
  /\ nextRequestId <= MaxOps
  /\ \E sender \in Addresses, _petId1 \in PetIds, _petId2 \in PetIds :
       /\ requestMatching([State EXCEPT !.isPaused = FALSE], sender,
                          MATCHING_FEE, _petId1, _petId2).ok
       /\ requestMatching(State, sender, MATCHING_FEE, _petId1, _petId2).err
            = "Contract is paused"
  /\ \E in \in ValidRegistrations :
       registerPet(State, "alice", in.name, in.breed, in.age, in.dna,
                   in.proof).err = "Contract is paused"

(* C23: only the current owner can withdraw fees, toggle the pause flag,
   change the callback timeout or transfer ownership: each of these calls
   made by any other caller, with any arguments, is rejected and returns
   the state it started from. *)
C23_OnlyOwner ==
  \A sender \in Callers \ {owner} :
    LET Denied(res) == ~res.ok /\ res.s = State
    IN  /\ \A _to \in Addresses \cup {ZeroAddress}, beh \in Behaviours :
             Denied(withdrawPlatformFees(State, sender, _to, beh))
        /\ Denied(togglePause(State, sender))
        /\ \A _newTimeout \in TimeoutInputs :
             Denied(setCallbackTimeout(State, sender, _newTimeout))
        /\ \A _newOwner \in Addresses \cup {ZeroAddress} :
             Denied(transferOwnership(State, sender, _newOwner))

(* ownership was handed over and fees are waiting: the new owner can
   withdraw them, the deployer no longer can, nor can it pause, change the
   timeout or take ownership back *)
C23_Witness ==
  /\ owner = "alice"
  /\ platformFees > 0
  /\ withdrawPlatformFees(State, owner, "alice", LeafBehaviour("accept")).ok
  /\ withdrawPlatformFees(State, Deployer, Deployer,
                          LeafBehaviour("accept")).err
       = "Not authorized: Owner only"
  /\ togglePause(State, Deployer).err = "Not authorized: Owner only"
  /\ setCallbackTimeout(State, Deployer, MIN_CALLBACK_TIMEOUT).err
       = "Not authorized: Owner only"
  /\ transferOwnership(State, Deployer, Deployer).err
       = "Not authorized: Owner only"

(* the fees credited to platformFees so far, over the requests in S *)
RECURSIVE CreditedIn(_, _)
CreditedIn(s, S) ==
  IF S = {} THEN 0
  ELSE LET r == CHOOSE x \in S : TRUE
       IN  s.credited[r] + CreditedIn(s, S \ {r})

(* a successful withdrawal of amount to _to, as res reports it *)
Withdrew(res, _to, amount, beh) ==
  /\ res.s.transfers[<<_to, amount, 0>>]
       = CountOf(transfers, <<_to, amount, 0>>) + 1
  /\ SumField(res.s.transfers, TransfersFor(res.s, 0), 2)
       = WithdrawnAmount + amount
  /\ res.s.platformFees
       = CreditedIn(res.s, RequestIds) - CreditedIn(State, RequestIds)
  /\ beh \in LeafBehaviours =>
       /\ res.s.platformFees = 0
       /\ res.s.balance = balance - amount

(* C24 as stated: withdrawPlatformFees called by the owner fails when
   platformFees is zero, and otherwise transfers exactly platformFees to
   the recipient and leaves the accumulator at zero. *)
C24_WithdrawAsStated ==
  \A _to \in Addresses \cup {ZeroAddress}, beh \in Behaviours :
    LET res == withdrawPlatformFees(State, owner, _to, beh)
    IN  IF platformFees = 0 THEN ~res.ok
        ELSE res.ok /\ Withdrew(res, _to, platformFees, beh)

(* C24, amended: withdrawPlatformFees called by the owner fails, changing
   nothing, when platformFees is zero, when the recipient is the zero
   address, or when the recipient does not take the transfer; otherwise it
   transfers exactly the current platformFees to the recipient, and the
   accumulator is zeroed before the transfer is attempted: after the call
   it holds only what a callback nested in the transfer credited (zero when
   the recipient makes no nested call). *)
C24_Withdraw ==
  \A _to \in Addresses \cup {ZeroAddress}, beh \in Behaviours :
    LET res == withdrawPlatformFees(State, owner, _to, beh)
    IN  /\ (platformFees = 0 \/ _to = ZeroAddress \/ beh.kind = "reject")
             => ~res.ok
        /\ ~res.ok => res.s = State
        /\ (platformFees > 0 /\ _to # ZeroAddress /\ beh.kind = "accept")
             => res.ok
        /\ res.ok => Withdrew(res, _to, platformFees, beh)

(* fees are waiting while a request that will be retained is pending: the
   recipient of the withdrawal delivers the callback for it from inside the
   transfer, and the fee credited there is what the accumulator holds
   afterwards; a withdrawal on an empty accumulator was turned away before *)
C24_Witness ==
  /\ platformFees = MATCHING_FEE
  /\ \E r \in ActiveRequests :
       LET q == matchingRequests[r]
           res == withdrawPlatformFees(State, owner, "alice",
                    [kind |-> "reenter", op |-> "processMatchingCallback",
                     id |-> q.decryptionRequestId, swallow |-> FALSE])
       IN  /\ res.ok
           /\ res.s.matchingRequests[r].isCompleted
           /\ res.s.platformFees = MATCHING_FEE
           /\ res.s.transfers[<<"alice", MATCHING_FEE, 0>>] = 1
  /\ withdrawPlatformFees([State EXCEPT !.platformFees = 0], owner, "alice",
                          LeafBehaviour("accept")).err = "No fees to withdraw"

(* C25: callbackTimeout is within [MIN_CALLBACK_TIMEOUT,
   MAX_CALLBACK_TIMEOUT] (10 minutes to 24 hours) in every reachable state:
   it is DEFAULT_CALLBACK_TIMEOUT (2 hours) as long as no update was
   logged, setCallbackTimeout rejects every value outside the bounds and
   leaves the state unchanged, and the owner's call with a value inside the
   bounds, the bounds included, sets it. *)
C25_TimeoutWithinBounds ==
  /\ callbackTimeout >= MIN_CALLBACK_TIMEOUT
  /\ callbackTimeout <= MAX_CALLBACK_TIMEOUT
  /\ EventsNamed(State, {"CallbackTimeoutUpdated"}) = {}
       => callbackTimeout = DEFAULT_CALLBACK_TIMEOUT
  /\ \A sender \in Callers, _newTimeout \in TimeoutInputs :
       LET res == setCallbackTimeout(State, sender, _newTimeout)
           inside == /\ _newTimeout >= MIN_CALLBACK_TIMEOUT
                     /\ _newTimeout <= MAX_CALLBACK_TIMEOUT
       IN  /\ ~inside => (~res.ok /\ res.s = State)
           /\ (inside /\ sender = owner) =>
                (res.ok /\ res.s.callbackTimeout = _newTimeout)

(* the timeout was set to its upper bound, and the owner's attempts to go
   one second above the upper and one second below the lower bound are
   turned away *)
C25_Witness ==
  /\ callbackTimeout = MAX_CALLBACK_TIMEOUT
  /\ setCallbackTimeout(State, owner, MAX_CALLBACK_TIMEOUT + 1).err
       = "Timeout too long"
  /\ setCallbackTimeout(State, owner, MIN_CALLBACK_TIMEOUT - 1).err
       = "Timeout too short"

(* C26: the timeoutDeadline of a request is its creation time plus the
   callbackTimeout in force when it was created, and never changes
   afterwards: an accepted requestMatching stores now + callbackTimeout,
   the log entry of the creation carries the deadline the request still
   has, and no step (a later setCallbackTimeout included) changes the
   requestTime or the timeoutDeadline of a request on record. *)
C26_DeadlineFixedAtCreation ==
  /\ [](\A sender \in Addresses, _petId1 \in PetIds, _petId2 \in PetIds :
          nextRequestId <= MaxOps =>
            LET res == requestMatching(State, sender, MATCHING_FEE, _petId1,
                                       _petId2)
                new == res.s.matchingRequests[nextRequestId]
            IN  res.ok =>
                  /\ new.requestTime = now
                  /\ new.timeoutDeadline = now + callbackTimeout)
  /\ [](\A r \in CreatedRequests :
          LET q == matchingRequests[r]
          IN  CountOf(events, Event("MatchingRequested",
                        <<r, q.petId1, q.petId2, q.requester,
                          q.timeoutDeadline>>)) = 1)
  /\ [][ \A r \in CreatedRequests :
           /\ matchingRequests'[r].timeoutDeadline
                = matchingRequests[r].timeoutDeadline
           /\ matchingRequests'[r].requestTime
                = matchingRequests[r].requestTime ]_vars

(* a request is in flight with the deadline of the default timeout while
   the owner has since changed callbackTimeout to another value *)
C26_Witness ==
  \E r \in ActiveRequests :
    LET q == matchingRequests[r]
    IN  /\ q.timeoutDeadline = q.requestTime + DEFAULT_CALLBACK_TIMEOUT
        /\ callbackTimeout # DEFAULT_CALLBACK_TIMEOUT
        /\ EventsNamed(State, {"CallbackTimeoutUpdated"}) # {}

(* entries of the log with the given name that are about request r *)
LoggedFor(s, name, r) ==
  SumCounts(s.events, { e \in EventsNamed(s, {name}) : e[2] = r })

(* the log b with the entries of the sequence es added *)
RECURSIVE BagAddAll(_, _)
BagAddAll(b, es) ==
  IF es = <<>> THEN b ELSE BagAddAll(BagAdd(b, Head(es)), Tail(es))

(* C27: events are emitted exactly once per successful transition and
   never by a failed call.  An accepted requestMatching adds one
   MatchingRequested and one DecryptionRequested entry to the log and
   nothing else; an accepted callback adds one MatchingCompleted entry,
   preceded by one MatchingRefunded entry when the score is below the
   threshold; an accepted timeout claim adds one MatchingRefunded and one
   TimeoutTriggered entry (the exact additions are stated for recipients
   that make no nested call); a call that is not accepted leaves the log as
   it was.  So per request the log holds one MatchingRequested and one
   DecryptionRequested entry, one MatchingCompleted entry iff it was
   completed, one MatchingRefunded entry iff it was refunded, and one
   TimeoutTriggered entry iff it was refunded by a timeout claim. *)
C27_EventsExactlyOnce ==
  LET Flag(b) == IF b THEN 1 ELSE 0
  IN
  /\ \A r \in RequestIds :
       LET q == matchingRequests[r]
       IN  /\ LoggedFor(State, "MatchingRequested", r) = Flag(Created(r))
           /\ LoggedFor(State, "DecryptionRequested", r) = Flag(Created(r))
           /\ LoggedFor(State, "MatchingCompleted", r) = Flag(q.isCompleted)
           /\ LoggedFor(State, "MatchingRefunded", r) = Flag(q.isRefunded)
           /\ LoggedFor(State, "TimeoutTriggered", r)
                = Flag(q.isRefunded /\ ~q.isCompleted)
  /\ \A sender \in Addresses, value \in PaymentInputs,
        _petId1 \in PetIds, _petId2 \in PetIds :
       nextRequestId <= MaxOps =>
         LET res == requestMatching(State, sender, value, _petId1, _petId2)
         IN  res.s.events =
               IF res.ok
               THEN BagAddAll(events,
                      << Event("MatchingRequested",
                               <<nextRequestId, _petId1, _petId2, sender,
                                 now + callbackTimeout>>),
                         Event("DecryptionRequested",
                               <<nextRequestId, decryptionCounter>>) >>)
               ELSE events
  /\ \A r \in CreatedRequests, sender \in Callers, beh \in Behaviours :
       LET q == matchingRequests[r]
           norm == _normalizeScore(q.encryptedScore)
           refunded(reason) ==
             Event("MatchingRefunded", <<r, q.requester, q.paidFee, reason>>)
           completed ==
             Event("MatchingCompleted", <<r, norm, isSuccessfulMatch(norm)>>)
           callback(proofValid) ==
             processMatchingCallback(State, sender, q.decryptionRequestId,
                                     proofValid, beh)
           claim == claimTimeoutRefund(State, sender, r, beh)
       IN  /\ \A proofValid \in BOOLEAN :
                /\ ~callback(proofValid).ok
                     => callback(proofValid).s.events = events
                /\ (callback(proofValid).ok /\ beh \in LeafBehaviours) =>
                     callback(proofValid).s.events =
                       IF isSuccessfulMatch(norm)
                       THEN BagAddAll(events, <<completed>>)
                       ELSE BagAddAll(events,
                              << refunded("Compatibility score below threshold"),
                                 completed >>)
           /\ ~claim.ok => claim.s.events = events
           /\ (claim.ok /\ beh \in LeafBehaviours) =>
                claim.s.events =
                  BagAddAll(events,
                    << refunded("Gateway callback timeout"),
                       Event("TimeoutTriggered", <<r, q.paidFee>>) >>)

(* one request was completed below the threshold and refunded by its
   callback, another was refunded by a timeout claim: the log holds each of
   their entries once *)
C27_Witness ==
  \E r1 \in CreatedRequests, r2 \in CreatedRequests :
    /\ matchingRequests[r1].isCompleted /\ matchingRequests[r1].isRefunded
    /\ LoggedFor(State, "MatchingCompleted", r1) = 1
    /\ LoggedFor(State, "MatchingRefunded", r1) = 1
    /\ LoggedFor(State, "TimeoutTriggered", r1) = 0
    /\ ~matchingRequests[r2].isCompleted /\ matchingRequests[r2].isRefunded
    /\ LoggedFor(State, "MatchingRefunded", r2) = 1
    /\ LoggedFor(State, "TimeoutTriggered", r2) = 1
    /\ LoggedFor(State, "MatchingCompleted", r2) = 0

(* cleartext scores a callback can decode as uint32: the values around the
   points where the normalized score reaches 1, 100 and 101, and the ends
   of the 32-bit range *)
ScoreSamples ==
  { U32(n) : n \in {0, 10, 11, 716, 717, 1023, 1024, 1034, 1035, 1220} }
  \cup [hi : {0, 1, 32768, 65535}, lo : {0, 1, 65535}]

(* C28: the compatibilityScore stored on a request is always within
   0..100: _normalizeScore maps every 32-bit cleartext score into 0..100,
   every accepted callback stores a score in 0..100, and the stored score
   is 0 for every request that has not been completed by a callback. *)
C28_ScoreWithinRange ==
  /\ \A raw \in ScoreSamples : _normalizeScore(raw) \in 0..100
  /\ \A r \in RequestIds :
       /\ matchingRequests[r].compatibilityScore \in 0..100
       /\ ~matchingRequests[r].isCompleted
            => matchingRequests[r].compatibilityScore = 0
  /\ \A r \in CreatedRequests, beh \in Behaviours :
       LET res == processMatchingCallback(State, Relayer,
                    matchingRequests[r].decryptionRequestId, TRUE, beh)
       IN  res.ok =>
             /\ res.s.matchingRequests[r].compatibilityScore
                  = _normalizeScore(matchingRequests[r].encryptedScore)
             /\ res.s.matchingRequests[r].compatibilityScore \in 0..100

(* one request was completed with a score of 69 and another is on record
   without a callback, its score still 0; the largest 32-bit cleartext
   normalizes to 100 *)
C28_Witness ==
  /\ \E r1 \in CreatedRequests, r2 \in CreatedRequests :
       /\ matchingRequests[r1].isCompleted
       /\ matchingRequests[r1].compatibilityScore = 69
       /\ ~matchingRequests[r2].isCompleted
       /\ matchingRequests[r2].compatibilityScore = 0
  /\ _normalizeScore([hi |-> 65535, lo |-> 65535]) = 100
  /\ _normalizeScore(U32(1035)) = 100
  /\ _normalizeScore(U32(1034)) = 100
  /\ _normalizeScore(U32(1023)) = 99

(* C29: registerPet validates its public fields with inclusive bounds.
   With the contract not paused and an input proof that verifies, it is
   accepted exactly when the name and breed lengths are in 1..50 and the
   age is in 1..30, and then stores the pet under nextPetId; with a length
   of 0 or 51 or an age of 0 or 31 it is rejected, no pet is created and
   nextPetId is unchanged. *)
C29_RegisterPetBounds ==
  \A sender \in Addresses, in \in RegisterInputs :
    (nextPetId <= MaxPets /\ ~isPaused /\ in.proof) =>
      LET res == registerPet(State, sender, in.name, in.breed, in.age,
                             in.dna, in.proof)
          inBounds == /\ in.name \in 1..50
                      /\ in.breed \in 1..50
                      /\ in.age \in 1..30
      IN  /\ res.ok = inBounds
          /\ res.ok =>
               /\ res.s.nextPetId = nextPetId + 1
               /\ res.s.pets[nextPetId].exists
               /\ res.s.pets[nextPetId].owner = sender
               /\ res.s.pets[nextPetId].name = in.name
               /\ res.s.pets[nextPetId].breed = in.breed
               /\ res.s.pets[nextPetId].age = in.age
          /\ ~res.ok =>
               /\ res.s = State
               /\ res.s.nextPetId = nextPetId
               /\ res.s.pets = pets

(* a pet with a name of length 50 and an age of 30 is on record, and there
   is room for another: registrations with a length of 0 or 51 or an age
   of 0 or 31 are turned away *)
C29_Witness ==
  /\ nextPetId <= MaxPets
  /\ ~isPaused
  /\ \E p \in PetIds :
       pets[p].exists /\ pets[p].name = 50 /\ pets[p].age = 30
  /\ \A n \in {0, 51} :
       /\ registerPet(State, "alice", n, 1, 1, DNA(0, 0, 0, 0, 0, 0), TRUE).err
            = "Invalid name length"
       /\ registerPet(State, "alice", 1, n, 1, DNA(0, 0, 0, 0, 0, 0), TRUE).err
            = "Invalid breed length"
  /\ \A a \in {0, 31} :
       registerPet(State, "alice", 1, 1, a, DNA(0, 0, 0, 0, 0, 0), TRUE).err
         = "Invalid age: Must be 1-30 years"

(* C30: the preconditions of requestMatching are checked in a fixed order:
   not paused, pet 1 exists, pet 2 exists, exact fee, distinct pets, pet 1
   available, pet 2 available, caller owns one of the pets.  A call is
   accepted iff none is violated; otherwise it is rejected with the failure
   of the first violated one in that order, however many are violated at
   once.  (The two existence checks are the validPetId modifier, which
   reports an id out of range or an unregistered pet.) *)
C30_GuardOrder ==
  \A sender \in Callers, value \in PaymentInputs,
     _petId1 \in 0..(MaxPets + 1), _petId2 \in 0..(MaxPets + 1) :
    nextRequestId <= MaxOps =>
      LET res == requestMatching(State, sender, value, _petId1, _petId2)
          Exists(p) == p > 0 /\ p < nextPetId /\ PetAt(State, p).exists
          notFound == {"Invalid pet ID", "Pet does not exist"}
          checks ==
            << <<isPaused, {"Contract is paused"}>>,
               <<~Exists(_petId1), notFound>>,
               <<~Exists(_petId2), notFound>>,
               <<value # MATCHING_FEE, {"Incorrect matching fee"}>>,
               <<_petId1 = _petId2, {"Cannot match pet with itself"}>>,
               <<~PetAt(State, _petId1).isAvailableForBreeding,
                 {"Pet 1 not available for breeding"}>>,
               <<~PetAt(State, _petId2).isAvailableForBreeding,
                 {"Pet 2 not available for breeding"}>>,
               <<~(\/ sender = PetAt(State, _petId1).owner
                   \/ sender = PetAt(State, _petId2).owner),
                 {"Must own at least one pet"}>> >>
          violated == { i \in 1..8 : checks[i][1] }
          first == CHOOSE i \in violated : \A j \in violated : i <= j
      IN  IF violated = {} THEN res.ok
          ELSE /\ ~res.ok
               /\ res.err \in checks[first][2]
               /\ res.s = State

(* two registered pets, both taken off breeding: a caller who owns neither
   is told about the missing pet before the payment, about the payment
   before the identical ids, about the identical ids before availability,
   and about pet 1 before pet 2 and before ownership *)
C30_Witness ==
  /\ ~isPaused
  /\ nextPetId = 3
  /\ ~pets[1].isAvailableForBreeding
  /\ ~pets[2].isAvailableForBreeding
  /\ requestMatching(State, Relayer, MATCHING_FEE + 1, 3, 3).err
       = "Invalid pet ID"
  /\ requestMatching(State, Relayer, MATCHING_FEE + 1, 1, 1).err
       = "Incorrect matching fee"
  /\ requestMatching(State, Relayer, MATCHING_FEE, 2, 2).err
       = "Cannot match pet with itself"
  /\ requestMatching(State, Relayer, MATCHING_FEE, 1, 2).err
       = "Pet 1 not available for breeding"

(* the flags of a request, read as one of the four dispositions *)
Disposition(request) ==
  { d \in {"Active", "Completed-Success", "Completed-Refunded",
           "Timed-Out-Refunded"} :
      \/ /\ d = "Active"
         /\ request.isActive /\ ~request.isCompleted /\ ~request.isRefunded
      \/ /\ d = "Completed-Success"
         /\ ~request.isActive /\ request.isCompleted /\ ~request.isRefunded
      \/ /\ d = "Completed-Refunded"
         /\ ~request.isActive /\ request.isCompleted /\ request.isRefunded
      \/ /\ d = "Timed-Out-Refunded"
         /\ ~request.isActive /\ ~request.isCompleted /\ request.isRefunded }

(* C31: every created request is in exactly one of the four dispositions
   Active, Completed-Success, Completed-Refunded, Timed-Out-Refunded; in
   particular isActive holds iff neither isCompleted nor isRefunded holds. *)
C31_FourDispositions ==
  \A r \in CreatedRequests :
    LET request == matchingRequests[r]
    IN  /\ Cardinality(Disposition(request)) = 1
        /\ request.isActive <=> ~(request.isCompleted \/ request.isRefunded)

(* one request was completed by a callback that refunded it, the other was
   refunded after its deadline *)
C31_Witness ==
  /\ CreatedRequests = RequestIds
  /\ \E r \in RequestIds :
       Disposition(matchingRequests[r]) = {"Completed-Refunded"}
  /\ \E r \in RequestIds :
       Disposition(matchingRequests[r]) = {"Timed-Out-Refunded"}

(* the requests on record are the same in s as in the current state *)
RequestsUntouched(s) ==
  /\ s.nextRequestId >= nextRequestId
  /\ \A r \in CreatedRequests : s.matchingRequests[r] = matchingRequests[r]

(* C32: only processMatchingCallback and claimTimeoutRefund modify an
   existing request.  registerPet, toggleBreedingStatus, requestMatching
   (which writes the new request only), withdrawPlatformFees (the transfer
   itself; a recipient that calls back into the contract is the caller of
   that nested call), setCallbackTimeout, togglePause and transferOwnership
   leave every request on record unchanged; in every step a request that
   changes is settled by a callback or a timeout claim, which the log shows
   as one more MatchingCompleted or TimeoutTriggered entry for it; and a
   request on record stays on record. *)
C32_RequestFrame ==
  /\ [](\A sender \in Addresses :
          /\ \A in \in RegisterInputs :
               nextPetId <= MaxPets =>
                 RequestsUntouched(registerPet(State, sender, in.name,
                                     in.breed, in.age, in.dna, in.proof).s)
          /\ \A _petId \in 0..MaxPets :
               RequestsUntouched(toggleBreedingStatus(State, sender,
                                                      _petId).s)
          /\ \A value \in PaymentInputs, _petId1 \in 0..MaxPets,
                _petId2 \in 0..MaxPets :
               nextRequestId <= MaxOps =>
                 RequestsUntouched(requestMatching(State, sender, value,
                                                   _petId1, _petId2).s)
          /\ \A _to \in Addresses \cup {ZeroAddress}, beh \in LeafBehaviours :
               RequestsUntouched(withdrawPlatformFees(State, sender, _to,
                                                      beh).s)
          /\ \A _newTimeout \in TimeoutInputs :
               RequestsUntouched(setCallbackTimeout(State, sender,
                                                    _newTimeout).s)
          /\ RequestsUntouched(togglePause(State, sender).s)
          /\ \A _newOwner \in Addresses \cup {ZeroAddress} :
               RequestsUntouched(transferOwnership(State, sender,
                                                   _newOwner).s))
  /\ [][ \A r \in CreatedRequests :
           /\ r < nextRequestId'
           /\ matchingRequests'[r] # EmptyRequest
           /\ matchingRequests'[r] # matchingRequests[r]
                => /\ matchingRequests[r].isActive
                   /\ TerminalTransitions(State, r)'
                        = TerminalTransitions(State, r) + 1 ]_vars

(* a request is still pending, untouched, after the owner changed the
   timeout and its pet was taken off breeding *)
C32_Witness ==
  /\ ActiveRequests # {}
  /\ adminCalls > 0
  /\ callbackTimeout # DEFAULT_CALLBACK_TIMEOUT \/ isPaused
       \/ \E p \in PetIds : pets[p].exists /\ ~pets[p].isAvailableForBreeding

(* the oracle ids handed out so far *)
DispatchedIds == { d \in DecryptionIds : d < decryptionCounter }

(* C33: the correlation map is a bijection between the dispatched oracle
   ids and the matching request ids: every created request r has
   requestIdByDecryptionId[r.decryptionRequestId] = r, no two requests share
   an oracle id, every dispatched id leads to the request that carries it
   and an id never dispatched leads to no request; the oracle id of a
   request never changes and no entry of the map is removed or
   overwritten. *)
C33_CorrelationBijection ==
  /\ [](/\ \A r \in CreatedRequests :
             /\ matchingRequests[r].decryptionRequestId \in DispatchedIds
             /\ requestIdByDecryptionId[
                  matchingRequests[r].decryptionRequestId] = r
        /\ \A r1 \in CreatedRequests, r2 \in CreatedRequests :
             r1 # r2 => matchingRequests[r1].decryptionRequestId
                          # matchingRequests[r2].decryptionRequestId
        /\ \A d \in DecryptionIds :
             IF d \in DispatchedIds
             THEN /\ requestIdByDecryptionId[d] \in CreatedRequests
                  /\ matchingRequests[requestIdByDecryptionId[d]]
                       .decryptionRequestId = d
             ELSE requestIdByDecryptionId[d] = 0
        /\ Cardinality(DispatchedIds) = Cardinality(CreatedRequests))
  /\ [][ /\ \A r \in CreatedRequests :
              matchingRequests'[r].decryptionRequestId
                = matchingRequests[r].decryptionRequestId
         /\ \A d \in DispatchedIds :
              requestIdByDecryptionId'[d] = requestIdByDecryptionId[d] ]_vars

(* two requests are on record, the first settled, the second pending, each
   found under its own oracle id *)
C33_Witness ==
  /\ CreatedRequests = RequestIds
  /\ ~matchingRequests[1].isActive
  /\ matchingRequests[2].isActive
  /\ requestIdByDecryptionId[matchingRequests[1].decryptionRequestId] = 1
  /\ requestIdByDecryptionId[matchingRequests[2].decryptionRequestId] = 2

(* the number of log entries named name *)
Logged(s, name) == SumCounts(s.events, EventsNamed(s, {name}))

IdCounters(s) == <<s.nextPetId, s.nextRequestId>>

(* C34: identifiers are assigned 1, 2, 3, ... in creation order and never
   reused.  nextPetId and nextRequestId start at 1; an accepted registerPet
   stores the pet under nextPetId and advances nextPetId by one, an accepted
   requestMatching stores the request under nextRequestId and advances
   nextRequestId by one, a rejected call and every other operation leave
   both counters alone; so getTotalPets is the number of accepted
   registrations, the ids in use are exactly 1 .. counter - 1, and each id
   was logged for exactly one pet or request. *)
C34_SequentialIds ==
  /\ nextPetId = 1 /\ nextRequestId = 1
  /\ [](/\ getTotalPets(State) = Logged(State, "PetRegistered")
        /\ nextRequestId - 1 = Logged(State, "MatchingRequested")
        /\ \A p \in PetIds :
             /\ pets[p].exists <=> p < nextPetId
             /\ LoggedFor(State, "PetRegistered", p)
                  = IF p < nextPetId THEN 1 ELSE 0
        /\ \A r \in RequestIds :
             /\ matchingRequests[r] # EmptyRequest <=> r < nextRequestId
             /\ LoggedFor(State, "MatchingRequested", r)
                  = IF r < nextRequestId THEN 1 ELSE 0
        /\ \A sender \in Addresses :
             /\ \A in \in RegisterInputs :
                  nextPetId <= MaxPets =>
                    LET res == registerPet(State, sender, in.name, in.breed,
                                           in.age, in.dna, in.proof)
                    IN  IF res.ok
                        THEN /\ IdCounters(res.s)
                                  = <<nextPetId + 1, nextRequestId>>
                             /\ res.s.pets[nextPetId].exists
                             /\ \A p \in PetIds \ {nextPetId} :
                                  res.s.pets[p] = pets[p]
                        ELSE IdCounters(res.s) = IdCounters(State)
             /\ \A value \in PaymentInputs, _petId1 \in 0..MaxPets,
                   _petId2 \in 0..MaxPets :
                  nextRequestId <= MaxOps =>
                    LET res == requestMatching(State, sender, value, _petId1,
                                               _petId2)
                    IN  IF res.ok
                        THEN /\ IdCounters(res.s)
                                  = <<nextPetId, nextRequestId + 1>>
                             /\ res.s.matchingRequests[nextRequestId].isActive
                             /\ \A r \in RequestIds \ {nextRequestId} :
                                  res.s.matchingRequests[r]
                                    = matchingRequests[r]
                        ELSE IdCounters(res.s) = IdCounters(State)
             /\ \A _petId \in 0..MaxPets :
                  IdCounters(toggleBreedingStatus(State, sender, _petId).s)
                    = IdCounters(State)
             /\ \A _newTimeout \in TimeoutInputs :
                  IdCounters(setCallbackTimeout(State, sender, _newTimeout).s)
                    = IdCounters(State)
             /\ IdCounters(togglePause(State, sender).s) = IdCounters(State)
             /\ \A _newOwner \in Addresses \cup {ZeroAddress} :
                  IdCounters(transferOwnership(State, sender, _newOwner).s)
                    = IdCounters(State)
             /\ \A beh \in Behaviours :
                  /\ \A _to \in Addresses \cup {ZeroAddress} :
                       IdCounters(withdrawPlatformFees(State, sender, _to,
                                                       beh).s)
                         = IdCounters(State)
                  /\ \A _requestId \in 0..MaxOps :
                       IdCounters(claimTimeoutRefund(State, sender,
                                                     _requestId, beh).s)
                         = IdCounters(State)
                  /\ \A d \in DecryptionIds, proofValid \in BOOLEAN :
                       IdCounters(processMatchingCallback(State, Relayer, d,
                                                          proofValid, beh).s)
                         = IdCounters(State)
        /\ IdCounters(receive(State, 1).s) = IdCounters(State))
  /\ [][ /\ nextPetId' \in {nextPetId, nextPetId + 1}
         /\ nextRequestId' \in {nextRequestId, nextRequestId + 1}
         /\ Logged(State, "PetRegistered")'
              = Logged(State, "PetRegistered") + (nextPetId' - nextPetId)
         /\ Logged(State, "MatchingRequested")'
              = Logged(State, "MatchingRequested")
                + (nextRequestId' - nextRequestId) ]_vars

(* two pets registered by different owners hold the ids 1 and 2, and two
   requests hold the ids 1 and 2 *)
C34_Witness ==
  /\ getTotalPets(State) = 2
  /\ pets[1].exists /\ pets[2].exists
  /\ pets[1].owner # pets[2].owner
  /\ nextRequestId = 3
  /\ matchingRequests[1].requestTime <= matchingRequests[2].requestTime

(* |n| over the integers *)
Abs(n) == IF n >= 0 THEN n ELSE 0 - n

(* C35: for all 8-bit a and b, _absDiff(a, b) = |a - b|, although one of
   the two subtractions of select(a >= b, a - b, b - a) wraps modulo 256.
   Checked for the marker of each registered pet against every 8-bit value,
   in both argument orders (the first pet's marker takes every value in
   0..255), and on the scores the contract computed: a request between two
   pets that differ in one marker only carries 200 + |a - b|. *)
C35_AbsDiff ==
  /\ \A p \in PetIds, x \in Byte :
       LET a == pets[p].dnaProfile.marker1
       IN  /\ _absDiff(a, x) = Abs(a - x)
           /\ _absDiff(x, a) = Abs(x - a)
           /\ a # x => Sub8(a, x) # a - x \/ Sub8(x, a) # x - a
  /\ \A r \in CreatedRequests :
       LET dna1 == pets[matchingRequests[r].petId1].dnaProfile
           dna2 == pets[matchingRequests[r].petId2].dnaProfile
       IN  (/\ dna1.healthRisk = 0 /\ dna2.healthRisk = 0
            /\ dna1.temperament = 0 /\ dna2.temperament = 0)
           => matchingRequests[r].encryptedScore
                = U32(200 + Abs(dna1.marker1 - dna2.marker1))

(* a request was scored for a pair whose first marker is the smaller one,
   so that a - b wrapped to 256 - 255 and b - a was selected *)
C35_Witness ==
  \E r \in CreatedRequests :
    LET dna1 == pets[matchingRequests[r].petId1].dnaProfile
        dna2 == pets[matchingRequests[r].petId2].dnaProfile
    IN  /\ dna1.marker1 = 0 /\ dna2.marker1 = 255
        /\ Sub8(dna1.marker1, dna2.marker1) = 1
        /\ matchingRequests[r].encryptedScore = U32(455)

(* the normalized score a pair of profiles is settled with *)
SettledScore(dna1, dna2) ==
  _normalizeScore(_calculateCompatibility(dna1, dna2))

(* C36: the health-risk penalty is unfavorable: with all other attributes
   fixed, raising either pet's healthRisk never raises the normalized score
   of the pair and never turns a refunded (below-threshold) outcome into a
   fee-retained one.  Stated for the pairs on record against every higher
   8-bit health risk, and for the settled requests: a request whose fee was
   retained would also have succeeded had its first pet no health risk. *)
C36_HealthPenaltyUnfavorable ==
  /\ \A p1 \in PetIds, p2 \in PetIds, h \in Byte :
       LET dna1 == pets[p1].dnaProfile
           dna2 == pets[p2].dnaProfile
           worse1 == [dna1 EXCEPT !.healthRisk = h]
           worse2 == [dna2 EXCEPT !.healthRisk = h]
       IN  /\ h >= dna1.healthRisk =>
                /\ SettledScore(worse1, dna2) <= SettledScore(dna1, dna2)
                /\ isSuccessfulMatch(SettledScore(worse1, dna2))
                     => isSuccessfulMatch(SettledScore(dna1, dna2))
           /\ h >= dna2.healthRisk =>
                /\ SettledScore(dna1, worse2) <= SettledScore(dna1, dna2)
                /\ isSuccessfulMatch(SettledScore(dna1, worse2))
                     => isSuccessfulMatch(SettledScore(dna1, dna2))
  /\ \A r \in CreatedRequests :
       LET q == matchingRequests[r]
           dna1 == pets[q.petId1].dnaProfile
           dna2 == pets[q.petId2].dnaProfile
       IN  (q.isCompleted /\ credited[r] > 0)
           => isSuccessfulMatch(
                SettledScore([dna1 EXCEPT !.healthRisk = 0],
                             [dna2 EXCEPT !.healthRisk = 0]))

(* what the contract owes: the retained fees and the fees of the pending
   requests *)
Owed == platformFees + SumPaidFee(ActiveRequests)

(* C37: solvency.  In every reachable state the balance is at least
   platformFees plus the sum of paidFee over the Active requests; so the
   balance that remains after the owner withdraws all of platformFees still
   holds the fee of every pending request, and no refund or withdrawal that
   passes its guards fails for lack of balance: towards a recipient that
   accepts the payment, a timeout claim of a request past its deadline, a
   callback for a pending request and a withdrawal of non-zero fees to a
   non-zero address all succeed. *)
C37_Solvency ==
  /\ balance >= Owed
  /\ balance - platformFees >= SumPaidFee(ActiveRequests)
  /\ \A r \in ActiveRequests :
       LET q == matchingRequests[r]
       IN  /\ q.paidFee <= balance
           /\ now > q.timeoutDeadline =>
                claimTimeoutRefund(State, Relayer, r,
                                   LeafBehaviour("accept")).ok
           /\ now <= q.timeoutDeadline =>
                processMatchingCallback(State, Relayer, q.decryptionRequestId,
                                        TRUE, LeafBehaviour("accept")).ok
  /\ platformFees > 0 =>
       LET res == withdrawPlatformFees(State, owner, owner,
                                       LeafBehaviour("accept"))
       IN  /\ res.ok
           /\ res.s.balance >= SumPaidFee(ActiveRequests)

(* the contract holds exactly what it owes: a retained fee not yet
   withdrawn and the fee of a request still pending *)
C37_Witness ==
  /\ platformFees = MATCHING_FEE
  /\ ActiveRequests # {}
  /\ balance = Owed
  /\ withdrawPlatformFees(State, owner, owner, LeafBehaviour("accept"))
       .s.balance = MATCHING_FEE

(* diversity + closeness - penalty over the integers *)
ExactScore(dna1, dna2) ==
  Abs(dna1.marker1 - dna2.marker1) + Abs(dna1.marker2 - dna2.marker2)
  + Abs(dna1.marker3 - dna2.marker3) + Abs(dna1.marker4 - dna2.marker4)
  + (200 - Abs(dna1.temperament - dna2.temperament))
  - (dna1.healthRisk + dna2.healthRisk)

(* C38: the 32-bit score computation never wraps: for attribute values in
   0..255 neither 200 - |temperament1 - temperament2| nor
   (diversity + temperament score) - (healthRisk1 + healthRisk2) goes below
   zero, so the raw score is the exact integer diversity + closeness -
   penalty.  Stated for every pair of registered pets and for the score
   stored with every request. *)
C38_NoWrap ==
  /\ \A p1 \in PetIds, p2 \in PetIds :
       LET dna1 == pets[p1].dnaProfile
           dna2 == pets[p2].dnaProfile
       IN  (p1 # p2 /\ pets[p1].exists /\ pets[p2].exists) =>
             /\ 200 - Abs(dna1.temperament - dna2.temperament) >= 0
             /\ ExactScore(dna1, dna2) >= 0
             /\ _calculateCompatibility(dna1, dna2)
                  = U32(ExactScore(dna1, dna2))
  /\ \A r \in CreatedRequests :
       LET q == matchingRequests[r]
           exact == ExactScore(pets[q.petId1].dnaProfile,
                               pets[q.petId2].dnaProfile)
       IN  exact >= 0 /\ q.encryptedScore = U32(exact)

(* the failures of claimTimeoutRefund that come from its guards (the       *)
(* validRequestId modifier and the requires before the transfer)           *)
ClaimGuardFailures ==
  {"Invalid request ID", "Request is not active", "Request already completed",
   "Already refunded", "Timeout not reached yet"}

(* C39: canClaimTimeoutRefund agrees with claimTimeoutRefund: at any time
   and for any id (0 and ids never created included) the view returns true
   exactly when a claimTimeoutRefund(id) made at the same moment passes all
   its guards.  When the view is true the claim succeeds towards a requester
   that accepts the refund, and whatever the requester does it fails, if at
   all, only in the transfer; when the view is false the claim is rejected
   by one of its guards, whoever calls and whatever the requester does. *)
C39_ViewAgreesWithClaim ==
  \A _requestId \in 0..(MaxOps + 1), sender \in Callers :
    /\ canClaimTimeoutRefund(State, _requestId)
         <=> claimTimeoutRefund(State, sender, _requestId,
                                LeafBehaviour("accept")).ok
    /\ \A beh \in Behaviours :
         LET res == claimTimeoutRefund(State, sender, _requestId, beh)
         IN  IF canClaimTimeoutRefund(State, _requestId)
             THEN res.ok \/ res.err = "Refund transfer failed"
             ELSE ~res.ok /\ res.err \in ClaimGuardFailures

(* one request is pending past its deadline, the other was settled: the
   view is true for the first and false for the second, for 0 and for an
   id never created *)
C39_Witness ==
  \E r1 \in CreatedRequests, r2 \in CreatedRequests :
    /\ canClaimTimeoutRefund(State, r1)
    /\ claimTimeoutRefund(State, "alice", r1, LeafBehaviour("accept")).ok
    /\ matchingRequests[r2].isCompleted
    /\ ~canClaimTimeoutRefund(State, r2)
    /\ ~canClaimTimeoutRefund(State, 0)
    /\ ~canClaimTimeoutRefund(State, nextRequestId)

(* the state s with the pause flag set to b *)
WithPause(s, b) == [s EXCEPT !.isPaused = b]

(* C40: pausing never locks the funds of in-flight requests: with the pause
   flag set, processMatchingCallback and claimTimeoutRefund are accepted or
   rejected exactly as with the flag cleared, with the same failure and the
   same effects, for every input and every behaviour of the recipient; so
   while paused an Active request past its deadline is still refunded (to a
   requester that accepts the payment) and one before its deadline is still
   settled by its callback. *)
C40_PauseDoesNotBlockSettlement ==
  /\ \A beh \in Behaviours :
       /\ \A sender \in Callers, _requestId \in 0..(MaxOps + 1) :
            LET paused == claimTimeoutRefund(WithPause(State, TRUE), sender,
                                             _requestId, beh)
                unpaused == claimTimeoutRefund(WithPause(State, FALSE),
                                               sender, _requestId, beh)
            IN  /\ paused.ok = unpaused.ok
                /\ paused.err = unpaused.err
                /\ paused.s = WithPause(unpaused.s, TRUE)
       /\ \A d \in DecryptionIds, proofValid \in BOOLEAN :
            LET paused == processMatchingCallback(WithPause(State, TRUE),
                                                  Relayer, d, proofValid, beh)
                unpaused == processMatchingCallback(WithPause(State, FALSE),
                                                    Relayer, d, proofValid,
                                                    beh)
            IN  /\ paused.ok = unpaused.ok
                /\ paused.err = unpaused.err
                /\ paused.s = WithPause(unpaused.s, TRUE)
  /\ isPaused =>
       \A r \in ActiveRequests :
         LET q == matchingRequests[r]
         IN  IF now > q.timeoutDeadline
             THEN claimTimeoutRefund(State, q.requester, r,
                                     LeafBehaviour("accept")).ok
             ELSE processMatchingCallback(State, Relayer,
                                          q.decryptionRequestId, TRUE,
                                          LeafBehaviour("accept")).ok

(* the contract is paused while a request is pending past its deadline, and
   the timeout claim goes through and pays the requester *)
C40_Witness ==
  /\ isPaused
  /\ \E r \in ActiveRequests :
       LET q == matchingRequests[r]
           res == claimTimeoutRefund(State, "alice", r,
                                     LeafBehaviour("accept"))
       IN  /\ now > q.timeoutDeadline
           /\ res.ok
           /\ res.s.matchingRequests[r].isRefunded
           /\ res.s.balance = balance - q.paidFee

====
